---- MODULE Spec2Model ----
(***************************************************************************)
(* Model of the englitune speech-scoring core (src/lib/speechUtils.ts):    *)
(* the CTC forced aligner, the text-diff scorer, the score aggregator and  *)
(* the L1 accent adjuster.                                                 *)
(*                                                                         *)
(* Numbers.  Log-probabilities are integers (exact sums).  Pronunciation   *)
(* scores in [0,1] are fixed-point integers in millionths.                 *)
(* Strings are sequences of one-character strings.                         *)
(***************************************************************************)
EXTENDS Integers, Sequences, FiniteSets, TLC

VARIABLES
    vLogProbs,      \* viterbiAlign: the frame matrix, a sequence of frames
    vTokens,        \* viterbiAlign: the expected token ids
    vResult,        \* viterbiAlign: what the call produced, or None
    lcsA,           \* computeLCS / buildDiff: the expected word list
    lcsB,           \* computeLCS / buildDiff: the spoken word list
    lcsDp,          \* computeLCS: the returned table, or None
    lcsDiff,        \* buildDiff: the returned word list, or None
    lcsCmp,         \* compareTexts on the two word lists, or None
    cmpOriginal,    \* compareTexts: the original text
    cmpSpoken,      \* compareTexts: the spoken text
    cmpResult,      \* compareTexts: the returned CompareResult, or None
    l1Arg,          \* applyL1Scoring: the object the caller passed
    l1Tag,          \* applyL1Scoring: the L1 language tag
    l1Ret,          \* applyL1Scoring: the returned value, or None
    gText,          \* processCtcOutput: the expected text
    gLogProbs,      \* processCtcOutput: the frame matrix
    gResult,        \* processCtcOutput: the returned PronunciationResult, or None
    gAdjusted,      \* recognize: what applyL1Scoring returned for the result, or None
    dLogProbs,      \* greedyDecode: the frame matrix
    dResult,        \* greedyDecode: the returned text, or None
    tkVocab,        \* tokenizeText: the module's tokenMap, null or loaded
    tkText,         \* tokenizeText: the text
    tkResult,       \* tokenizeText: the returned ids, or None
    nText,          \* normalizeText: the text
    nResult,        \* normalizeText: the returned text, or None
    session,        \* worker: the module's inference session, 0 for null, else the init that made it
    wVocab,         \* worker: the tokenizer's tokenMap, null or loaded
    wHandlers,      \* worker: one record per onmessage invocation, in order of arrival
    wPosted,        \* worker: the responses posted so far, in order
    hCompatible,    \* hook: whether checkDeviceCompatibility finds nothing missing
    hState,         \* hook: the SpeechState
    hResult,        \* hook: the PronunciationResult, 0 for null, else the request it answers
    hErrorMessage,  \* hook: the error message
    hWorkerRef,     \* hook: whether the worker has been created
    hModelReadyRef, \* hook: whether the worker has reported ready
    hChunksRef,     \* hook: the chunk buffer
    hExpectedTextRef, \* hook: the text given to the last start
    hRecordings,    \* hook: one record per startRecording call
    hProcessorRef,  \* hook: the recording the stream, context and processor refs hold, 0 for null
    hIntervals,     \* hook: the start calls whose checkReady interval is running
    hToWorker,      \* hook: the messages posted to the worker, in order
    hAnswered,      \* hook: how many of the messages to the worker have been answered
    hLog,           \* hook: the calls of start, stop and reset and the chunks captured, in order
    iStudies,       \* useStudiesStorage: the stored studies
    iPending,       \* DataActions: pendingImport, the dialog's state
    iReading,       \* DataActions: the files whose readStudiesFile promise is pending
    iLast,          \* DataActions: what the last handler did, or None
    sSupported,     \* Web Speech hook: isSupported
    sState,         \* Web Speech hook: state
    sTranscript,    \* Web Speech hook: transcript
    sErrorMessage,  \* Web Speech hook: errorMessage
    sRecognitionRef, \* Web Speech hook: recognitionRef.current, an instance number or 0
    sInstances,     \* Web Speech hook: the recognition instances created so far
    sCalls,         \* Web Speech hook: the number of start, stop and reset calls so far
    sLast           \* Web Speech hook: what the last handler was, or None

vars == <<vLogProbs, vTokens, vResult,
          lcsA, lcsB, lcsDp, lcsDiff, lcsCmp,
          cmpOriginal, cmpSpoken, cmpResult,
          l1Arg, l1Tag, l1Ret,
          gText, gLogProbs, gResult, gAdjusted,
          dLogProbs, dResult,
          tkVocab, tkText, tkResult,
          nText, nResult,
          session, wVocab, wHandlers, wPosted,
          hCompatible, hState, hResult, hErrorMessage, hWorkerRef,
          hModelReadyRef, hChunksRef, hExpectedTextRef, hRecordings,
          hProcessorRef, hIntervals, hToWorker, hAnswered, hLog,
          iStudies, iPending, iReading, iLast,
          sSupported, sState, sTranscript, sErrorMessage,
          sRecognitionRef, sInstances, sCalls, sLast>>

viterbiVars == <<vLogProbs, vTokens, vResult>>
lcsVars == <<lcsA, lcsB, lcsDp, lcsDiff, lcsCmp>>
cmpVars == <<cmpOriginal, cmpSpoken, cmpResult>>
l1Vars == <<l1Arg, l1Tag, l1Ret>>
gopVars == <<gText, gLogProbs, gResult, gAdjusted>>
decodeVars == <<dLogProbs, dResult>>
tokenizeVars == <<tkVocab, tkText, tkResult>>
normalizeVars == <<nText, nResult>>
workerVars == <<session, wVocab, wHandlers, wPosted>>
hookVars == <<hCompatible, hState, hResult, hErrorMessage, hWorkerRef,
      hModelReadyRef, hChunksRef, hExpectedTextRef, hRecordings,
      hProcessorRef, hIntervals, hToWorker, hAnswered, hLog>>
importVars == <<iStudies, iPending, iReading, iLast>>
speechVars == <<sSupported, sState, sTranscript, sErrorMessage, sRecognitionRef,
      sInstances, sCalls, sLast>>

(* The value of a result variable before the call has run; every result is
   a record whose field done is TRUE *)
None == [done |-> FALSE]

(* A part of the program that a specification does not exercise stays idle *)
ViterbiIdle == vLogProbs = <<>> /\ vTokens = <<>> /\ vResult = None
LcsIdle ==
    /\ lcsA = <<>> /\ lcsB = <<>> /\ lcsDp = None /\ lcsDiff = None
    /\ lcsCmp = None
CmpIdle == cmpOriginal = <<>> /\ cmpSpoken = <<>> /\ cmpResult = None
L1Idle == l1Arg = None /\ l1Tag = <<>> /\ l1Ret = None
GopIdle ==
    /\ gText = <<>> /\ gLogProbs = <<>> /\ gResult = None
    /\ gAdjusted = None
DecodeIdle == dLogProbs = <<>> /\ dResult = None
TokenizeIdle == tkVocab = [loaded |-> FALSE] /\ tkText = <<>> /\ tkResult = None
NormalizeIdle == nText = <<>> /\ nResult = None
WorkerIdle ==
    /\ session = 0 /\ wVocab = [loaded |-> FALSE] /\ wHandlers = <<>>
    /\ wPosted = <<>>
HookIdle ==
    /\ hCompatible = FALSE /\ hState = "idle" /\ hResult = 0
    /\ hErrorMessage = "" /\ hWorkerRef = FALSE /\ hModelReadyRef = FALSE
    /\ hChunksRef = <<>> /\ hExpectedTextRef = "" /\ hRecordings = <<>>
    /\ hProcessorRef = 0 /\ hIntervals = {} /\ hToWorker = <<>>
    /\ hAnswered = 0 /\ hLog = <<>>
ImportIdle ==
    /\ iStudies = <<>> /\ iPending = [open |-> FALSE, studies |-> <<>>]
    /\ iReading = {} /\ iLast = None
SpeechIdle ==
    /\ sSupported = FALSE /\ sState = "" /\ sTranscript = ""
    /\ sErrorMessage = "" /\ sRecognitionRef = 0 /\ sInstances = <<>>
    /\ sCalls = 0 /\ sLast = None

exceptViterbi ==
    <<lcsVars, cmpVars, l1Vars, gopVars, decodeVars, tokenizeVars,
      normalizeVars, workerVars, hookVars, importVars, speechVars>>
IdleExceptViterbi ==
    LcsIdle /\ CmpIdle /\ L1Idle /\ GopIdle /\ DecodeIdle
    /\ TokenizeIdle /\ NormalizeIdle /\ WorkerIdle /\ HookIdle
    /\ ImportIdle /\ SpeechIdle

exceptLcs ==
    <<viterbiVars, cmpVars, l1Vars, gopVars, decodeVars, tokenizeVars,
      normalizeVars, workerVars, hookVars, importVars, speechVars>>
IdleExceptLcs ==
    ViterbiIdle /\ CmpIdle /\ L1Idle /\ GopIdle /\ DecodeIdle
    /\ TokenizeIdle /\ NormalizeIdle /\ WorkerIdle /\ HookIdle
    /\ ImportIdle /\ SpeechIdle

exceptCmp ==
    <<viterbiVars, lcsVars, l1Vars, gopVars, decodeVars, tokenizeVars,
      normalizeVars, workerVars, hookVars, importVars, speechVars>>
IdleExceptCmp ==
    ViterbiIdle /\ LcsIdle /\ L1Idle /\ GopIdle /\ DecodeIdle
    /\ TokenizeIdle /\ NormalizeIdle /\ WorkerIdle /\ HookIdle
    /\ ImportIdle /\ SpeechIdle

exceptL1 ==
    <<viterbiVars, lcsVars, cmpVars, gopVars, decodeVars, tokenizeVars,
      normalizeVars, workerVars, hookVars, importVars, speechVars>>
IdleExceptL1 ==
    ViterbiIdle /\ LcsIdle /\ CmpIdle /\ GopIdle /\ DecodeIdle
    /\ TokenizeIdle /\ NormalizeIdle /\ WorkerIdle /\ HookIdle
    /\ ImportIdle /\ SpeechIdle

exceptGop ==
    <<viterbiVars, lcsVars, cmpVars, l1Vars, decodeVars, tokenizeVars,
      normalizeVars, workerVars, hookVars, importVars, speechVars>>
IdleExceptGop ==
    ViterbiIdle /\ LcsIdle /\ CmpIdle /\ L1Idle /\ DecodeIdle
    /\ TokenizeIdle /\ NormalizeIdle /\ WorkerIdle /\ HookIdle
    /\ ImportIdle /\ SpeechIdle

exceptDecode ==
    <<viterbiVars, lcsVars, cmpVars, l1Vars, gopVars, tokenizeVars,
      normalizeVars, workerVars, hookVars, importVars, speechVars>>
IdleExceptDecode ==
    ViterbiIdle /\ LcsIdle /\ CmpIdle /\ L1Idle /\ GopIdle
    /\ TokenizeIdle /\ NormalizeIdle /\ WorkerIdle /\ HookIdle
    /\ ImportIdle /\ SpeechIdle

exceptTokenize ==
    <<viterbiVars, lcsVars, cmpVars, l1Vars, gopVars, decodeVars,
      normalizeVars, workerVars, hookVars, importVars, speechVars>>
IdleExceptTokenize ==
    ViterbiIdle /\ LcsIdle /\ CmpIdle /\ L1Idle /\ GopIdle
    /\ DecodeIdle /\ NormalizeIdle /\ WorkerIdle /\ HookIdle
    /\ ImportIdle /\ SpeechIdle

exceptNormalize ==
    <<viterbiVars, lcsVars, cmpVars, l1Vars, gopVars, decodeVars,
      tokenizeVars, workerVars, hookVars, importVars, speechVars>>
IdleExceptNormalize ==
    ViterbiIdle /\ LcsIdle /\ CmpIdle /\ L1Idle /\ GopIdle
    /\ DecodeIdle /\ TokenizeIdle /\ WorkerIdle /\ HookIdle /\ ImportIdle
    /\ SpeechIdle

exceptWorker ==
    <<viterbiVars, lcsVars, cmpVars, l1Vars, gopVars, decodeVars,
      tokenizeVars, normalizeVars, hookVars, importVars, speechVars>>
IdleExceptWorker ==
    ViterbiIdle /\ LcsIdle /\ CmpIdle /\ L1Idle /\ GopIdle
    /\ DecodeIdle /\ TokenizeIdle /\ NormalizeIdle /\ HookIdle
    /\ ImportIdle /\ SpeechIdle

exceptHook ==
    <<viterbiVars, lcsVars, cmpVars, l1Vars, gopVars, decodeVars,
      tokenizeVars, normalizeVars, workerVars, importVars, speechVars>>
IdleExceptHook ==
    ViterbiIdle /\ LcsIdle /\ CmpIdle /\ L1Idle /\ GopIdle
    /\ DecodeIdle /\ TokenizeIdle /\ NormalizeIdle /\ WorkerIdle
    /\ ImportIdle /\ SpeechIdle

exceptImport ==
    <<viterbiVars, lcsVars, cmpVars, l1Vars, gopVars, decodeVars,
      tokenizeVars, normalizeVars, workerVars, hookVars, speechVars>>
IdleExceptImport ==
    ViterbiIdle /\ LcsIdle /\ CmpIdle /\ L1Idle /\ GopIdle
    /\ DecodeIdle /\ TokenizeIdle /\ NormalizeIdle /\ WorkerIdle
    /\ HookIdle /\ SpeechIdle

exceptSpeech ==
    <<viterbiVars, lcsVars, cmpVars, l1Vars, gopVars, decodeVars,
      tokenizeVars, normalizeVars, workerVars, hookVars, importVars>>
IdleExceptSpeech ==
    ViterbiIdle /\ LcsIdle /\ CmpIdle /\ L1Idle /\ GopIdle
    /\ DecodeIdle /\ TokenizeIdle /\ NormalizeIdle /\ WorkerIdle
    /\ HookIdle /\ ImportIdle

----------------------------------------------------------------------------
(* Bounds of the model *)

MaxT == 3          \* frames in a matrix
MaxL == 2          \* expected tokens
MaxWords == 3      \* words in a word list given to computeLCS
MaxTextLen == 3    \* characters of the original text given to compareTexts
MaxSpokenLen == 1  \* characters of a spoken text that is not the original
MaxL1Words == 2    \* words of a PronunciationResult given to applyL1Scoring
MaxTokText == 4    \* characters of a text given to tokenizeText
MaxNormText == 4   \* characters of a text given to normalizeText
MaxMessages == 3   \* messages the worker receives
MaxCalls == 3      \* calls of start, stop and reset on the hook
MaxChunks == 2     \* audio chunks captured

----------------------------------------------------------------------------
(* General helpers *)

Min(a, b) == IF a <= b THEN a ELSE b
Max(a, b) == IF a >= b THEN a ELSE b

RECURSIVE SeqSum(_)
SeqSum(s) == IF s = <<>> THEN 0 ELSE s[1] + SeqSum(Tail(s))

SeqsUpTo(S, n) == UNION {[1..k -> S] : k \in 0..n}

Range(s) == {s[i] : i \in DOMAIN s}

RECURSIVE Reverse(_)
Reverse(s) == IF s = <<>> THEN <<>> ELSE Append(Reverse(Tail(s)), s[1])

RECURSIVE SetMax(_)
SetMax(S) ==
    LET x == CHOOSE y \in S : TRUE
    IN  IF S = {x} THEN x ELSE Max(x, SetMax(S \ {x}))

(* s is a subsequence of t (elements of t, in order, not necessarily adjacent) *)
RECURSIVE IsSubseq(_, _)
IsSubseq(s, t) ==
    IF s = <<>> THEN TRUE
    ELSE IF t = <<>> THEN FALSE
    ELSE IF s[1] = t[1] THEN IsSubseq(Tail(s), Tail(t))
    ELSE IsSubseq(s, Tail(t))

----------------------------------------------------------------------------
(* Forced aligner: viterbiAlign *)

BLANK_IDX == 1024
UNK_IDX == 0

(* The sentinel -1e30.  A Float64 at -1e30 absorbs any addend of magnitude *)
(* below about 7e13, so the sentinel plus a log-probability is the         *)
(* sentinel again: FAdd.                                                   *)
NEG_INF == -1000000000

FAdd(a, b) == IF a = NEG_INF THEN NEG_INF ELSE a + b

(* Token ids and log-probability values the model's frames range over *)
TokenIds == {UNK_IDX, 1}
FrameIds == TokenIds \cup {BLANK_IDX}
LogProbValues == {-1, -4}
Frames == [FrameIds -> LogProbValues]

(* blank, tok0, blank, tok1, ..., blank; state s is expanded[s], s in 0..S-1 *)
expandedTokens(tokens) ==
    [s \in 0..(2 * Len(tokens)) |->
        IF s % 2 = 0 THEN BLANK_IDX ELSE tokens[(s + 1) \div 2]]

(* The skip transition s-2 -> s is open *)
SkipAllowed_noSameTokenCheck(expanded, s) ==
    /\ s > 1
    /\ expanded[s] # BLANK_IDX

SkipAllowed(expanded, s) ==
    /\ s > 1
    /\ expanded[s] # BLANK_IDX
    /\ expanded[s - 2] # expanded[s]

(* Best predecessor of state s: stay, else s-1 if strictly better, else s-2 *)
BestPredecessor(prev, expanded, s) ==
    LET c0 == [score |-> prev[s], from |-> s]
        c1 == IF s > 0 /\ prev[s - 1] > c0.score
              THEN [score |-> prev[s - 1], from |-> s - 1] ELSE c0
    IN  IF SkipAllowed(expanded, s) /\ prev[s - 2] > c1.score
        THEN [score |-> prev[s - 2], from |-> s - 2] ELSE c1

(* prev after frame 0 *)
ViterbiStart(logProbs, expanded) ==
    [s \in DOMAIN expanded |->
        IF s = 0 THEN logProbs[1][BLANK_IDX]
        ELSE IF s = 1 THEN logProbs[1][expanded[1]]
        ELSE NEG_INF]

(* The forward pass up to frame t (0-based): prev and the backpointers *)
RECURSIVE ViterbiForward(_, _, _)
ViterbiForward(logProbs, expanded, t) ==
    IF t = 0
    THEN [prev |-> ViterbiStart(logProbs, expanded), backpointer |-> <<>>]
    ELSE LET f == ViterbiForward(logProbs, expanded, t - 1)
             best == [s \in DOMAIN expanded |->
                         BestPredecessor(f.prev, expanded, s)]
         IN  [prev |-> [s \in DOMAIN expanded |->
                          FAdd(best[s].score, logProbs[t + 1][expanded[s]])],
              backpointer |-> Append(f.backpointer,
                                     [s \in DOMAIN expanded |-> best[s].from])]

BestEnd_alwaysFinalBlank(prev, S) == S - 1

(* The better of the last two states *)
BestEnd(prev, S) ==
    IF S > 1 /\ prev[S - 2] > prev[S - 1] THEN S - 2 ELSE S - 1

(* path[T-1] = bestEnd; path[t] = backpointer[t][path[t+1]]; a sequence 1..T *)
RECURSIVE Backtrack(_, _, _)
Backtrack(backpointer, bestEnd, n) ==
    IF n = 0 THEN <<bestEnd>>
    ELSE LET rest == Backtrack(backpointer, bestEnd, n - 1)
         IN  <<backpointer[Len(backpointer) - n + 1][rest[1]]>> \o rest

(* The token pushed for a frame whose path state is s *)
AlignedToken_stateIndex(expanded, s) == s

AlignedToken(expanded, s) == expanded[s]

(* logProbs[0] is undefined for an empty matrix: reading logProbs[0][..]   *)
(* raises a TypeError, so the call does not return.                        *)
viterbiAlign(logProbs, tokens) ==
    LET T == Len(logProbs)
        S == 2 * Len(tokens) + 1
        expanded == expandedTokens(tokens)
    IN  IF T = 0
        THEN [done |-> TRUE, threw |-> TRUE, path |-> <<>>, alignment |-> <<>>, scores |-> <<>>]
        ELSE LET f == ViterbiForward(logProbs, expanded, T - 1)
                 path == Backtrack(f.backpointer, BestEnd(f.prev, S), T - 1)
                 alignment == [t \in 1..T |-> AlignedToken(expanded, path[t])]
             IN  [done |-> TRUE, threw |-> FALSE,
                  path |-> path,
                  alignment |-> alignment,
                  scores |-> [t \in 1..T |-> logProbs[t][expanded[path[t]]]]]

----------------------------------------------------------------------------
(* Specification of the aligner: any matrix, any token sequence, one call *)

ViterbiInputs ==
    /\ vLogProbs \in SeqsUpTo(Frames, MaxT)
    /\ vTokens \in SeqsUpTo(TokenIds, MaxL)
    /\ vResult = None

ViterbiAlign ==
    /\ ~vResult.done
    /\ vResult' = viterbiAlign(vLogProbs, vTokens)
    /\ UNCHANGED <<vLogProbs, vTokens>>
    /\ UNCHANGED exceptViterbi

----------------------------------------------------------------------------
(* Properties of the aligner *)

(* CTC collapse: collapse consecutive duplicates, then drop blanks *)
RECURSIVE CtcCollapseFrom(_, _)
CtcCollapseFrom(prevTok, s) ==
    IF s = <<>> THEN <<>>
    ELSE IF s[1] = prevTok \/ s[1] = BLANK_IDX
         THEN CtcCollapseFrom(s[1], Tail(s))
         ELSE <<s[1]>> \o CtcCollapseFrom(s[1], Tail(s))

CtcCollapse(s) == CtcCollapseFrom(-1, s)

(* One step of a CTC lattice path, as the standard lattice defines it *)
LatticeStep(expanded, p, s) ==
    \/ s = p
    \/ s = p + 1
    \/ /\ s = p + 2
       /\ expanded[s] # BLANK_IDX
       /\ expanded[s] # expanded[p]

LatticeStarts(expanded) == {0, 1} \cap DOMAIN expanded

LatticeEnds(expanded) ==
    LET S == Cardinality(DOMAIN expanded)
    IN  {S - 1, S - 2} \cap DOMAIN expanded

(* Lattice paths of n frames that start in state 0 or 1 *)
ExtendPaths(expanded, P, n) ==
    UNION {{Append(p, s) : s \in {x \in DOMAIN expanded :
                                     LatticeStep(expanded, p[n - 1], x)}} : p \in P}

RECURSIVE StartedPaths(_, _)
StartedPaths(expanded, n) ==
    IF n = 1 THEN {<<s>> : s \in LatticeStarts(expanded)}
    ELSE ExtendPaths(expanded, StartedPaths(expanded, n - 1), n)

(* The valid paths of T >= 1 frames: they also end in one of the last two states *)
ValidPaths(expanded, T) ==
    {p \in StartedPaths(expanded, T) : p[T] \in LatticeEnds(expanded)}

IsValidPath(expanded, path) ==
    LET T == Len(path)
    IN  /\ T >= 1
        /\ path[1] \in LatticeStarts(expanded)
        /\ \A t \in 2..T : LatticeStep(expanded, path[t - 1], path[t])
        /\ path[T] \in LatticeEnds(expanded)

PathScore(logProbs, expanded, path) ==
    SeqSum([t \in 1..Len(path) |-> logProbs[t][expanded[path[t]]]])

vExpanded == expandedTokens(vTokens)
vT == Len(vLogProbs)
vReturned == vResult.done /\ ~vResult.threw

(* C1: when some valid CTC path of T >= 1 frames exists, the chosen path is *)
(* a valid lattice path and the returned scores sum to the maximum total    *)
(* log-probability over all valid paths.                                     *)
C1_ViterbiOptimalValidPath ==
    (vReturned /\ vT >= 1 /\ ValidPaths(vExpanded, vT) # {}) =>
        /\ IsValidPath(vExpanded, vResult.path)
        /\ SeqSum(vResult.scores) =
               SetMax({PathScore(vLogProbs, vExpanded, p) :
                          p \in ValidPaths(vExpanded, vT)})

(* a call on two equal adjacent tokens and enough frames, where the skip rule matters *)
C1_Witness ==
    /\ vReturned
    /\ Len(vTokens) = 2 /\ vTokens[1] = vTokens[2]
    /\ vT = 3
    /\ IsValidPath(vExpanded, vResult.path)

(* C2: for T >= 1 and any expected sequence, also one too long for T frames, *)
(* the CTC collapse of the alignment is a subsequence of the expected tokens *)
(* and every aligned token is the blank id or an expected token.             *)
C2_CollapseIsSubsequence ==
    (vReturned /\ vT >= 1) =>
        /\ IsSubseq(CtcCollapse(vResult.alignment), vTokens)
        /\ \A t \in DOMAIN vResult.alignment :
               vResult.alignment[t] \in {BLANK_IDX} \cup Range(vTokens)

(* a call whose token sequence does not fit in T frames *)
C2_Witness ==
    /\ vReturned
    /\ vT >= 1
    /\ Len(vTokens) >= 1
    /\ ValidPaths(vExpanded, vT) = {}

(* C3: for every T >= 0 and L >= 0 viterbiAlign returns normally, alignment *)
(* and scores have length T, scores[t] is the log-probability of            *)
(* alignment[t] in frame t, and for L = 0 every aligned frame is blank.     *)
C3_ViterbiTotal ==
    vResult.done =>
        /\ ~vResult.threw
        /\ Len(vResult.alignment) = vT
        /\ Len(vResult.scores) = vT
        /\ \A t \in 1..vT :
               vResult.scores[t] = vLogProbs[t][vResult.alignment[t]]
        /\ (vTokens = <<>> =>
               \A t \in 1..vT : vResult.alignment[t] = BLANK_IDX)

(* The number of adjacent equal pairs of a token sequence *)
AdjacentEqualPairs(tokens) ==
    Cardinality({i \in 1..(Len(tokens) - 1) : tokens[i] = tokens[i + 1]})

(* C27: when T is at least L plus the number of adjacent equal pairs of    *)
(* the expected tokens, so that a complete CTC path exists, the CTC        *)
(* collapse of the returned alignment is the whole expected sequence: the  *)
(* path starts in state 0 or 1, ends in one of the last two states, and    *)
(* passes through the state of every expected token.                       *)
C27_CollapseIsWholeSequence ==
    (/\ vReturned /\ vT >= 1
     /\ vT >= Len(vTokens) + AdjacentEqualPairs(vTokens)) =>
        /\ ValidPaths(vExpanded, vT) # {}
        /\ CtcCollapse(vResult.alignment) = vTokens
        /\ vResult.path[1] \in {0, 1}
        /\ vResult.path[vT] \in {2 * Len(vTokens), 2 * Len(vTokens) - 1}
        /\ \A k \in 1..Len(vTokens) :
               \E t \in 1..vT : vResult.path[t] = 2 * k - 1

(* an alignment of two different tokens whose path skips the blank between *)
(* them                                                                    *)
C27_Witness ==
    /\ vReturned
    /\ Len(vTokens) = 2 /\ vTokens[1] # vTokens[2]
    /\ vT = 3
    /\ \E t \in 1..2 : vResult.path[t + 1] = vResult.path[t] + 2
    /\ CtcCollapse(vResult.alignment) = vTokens

SpecViterbiInit ==
    /\ ViterbiInputs
    /\ IdleExceptViterbi

SpecViterbiNext == ViterbiAlign

SpecViterbi == SpecViterbiInit /\ [][SpecViterbiNext]_vars

----------------------------------------------------------------------------
(* Text normalizer: normalizeText.  A text is a sequence of characters. *)

UpperCase == <<"A", "B", "C", "D", "E", "F", "G", "H", "I", "J", "K", "L", "M",
               "N", "O", "P", "Q", "R", "S", "T", "U", "V", "W", "X", "Y", "Z">>
LowerCase == <<"a", "b", "c", "d", "e", "f", "g", "h", "i", "j", "k", "l", "m",
               "n", "o", "p", "q", "r", "s", "t", "u", "v", "w", "x", "y", "z">>
Digits == {"0", "1", "2", "3", "4", "5", "6", "7", "8", "9"}

UpperToLower ==
    [c \in Range(UpperCase) |->
        LowerCase[CHOOSE i \in DOMAIN UpperCase : UpperCase[i] = c]]

toLowerCase(text) ==
    [i \in 1..Len(text) |->
        IF text[i] \in DOMAIN UpperToLower THEN UpperToLower[text[i]] ELSE text[i]]

(* \w without the u flag: ASCII letters, digits, underscore *)
WordChars == Range(UpperCase) \cup Range(LowerCase) \cup Digits \cup {"_"}

(* \s *)
SpaceChars == {" ", "\t", "\n"}

(* .replace(/-/g, " ") *)
HyphensToSpaces(text) ==
    [i \in 1..Len(text) |-> IF text[i] = "-" THEN " " ELSE text[i]]

(* .replace(/[^\w\s']/g, "") *)
KeepChar(c) == c \in WordChars \/ c \in SpaceChars \/ c = "'"

StripOthers(text) == SelectSeq(text, KeepChar)

(* .replace(/\s+/g, " "): every maximal run of whitespace becomes one space *)
RECURSIVE CollapseSpaces(_)
CollapseSpaces(text) ==
    IF text = <<>> THEN <<>>
    ELSE IF text[1] \in SpaceChars
         THEN IF Len(text) > 1 /\ text[2] \in SpaceChars
              THEN CollapseSpaces(Tail(text))
              ELSE <<" ">> \o CollapseSpaces(Tail(text))
         ELSE <<text[1]>> \o CollapseSpaces(Tail(text))

(* .trim() *)
RECURSIVE TrimStart(_)
TrimStart(text) ==
    IF text # <<>> /\ text[1] \in SpaceChars THEN TrimStart(Tail(text)) ELSE text

Trim(text) == Reverse(TrimStart(Reverse(TrimStart(text))))

(* The five steps in the order of the source: lower-case, hyphens, strip,  *)
(* collapse, trim                                                          *)
normalizeText_trimBeforeStrip(text) ==
    CollapseSpaces(StripOthers(Trim(HyphensToSpaces(toLowerCase(text)))))

normalizeText(text) ==
    Trim(CollapseSpaces(StripOthers(HyphensToSpaces(toLowerCase(text)))))

(* str.split(" "): the pieces between single spaces; "" gives one empty piece *)
RECURSIVE SplitFrom(_, _)
SplitFrom(text, current) ==
    IF text = <<>> THEN <<current>>
    ELSE IF text[1] = " "
         THEN <<current>> \o SplitFrom(Tail(text), <<>>)
         ELSE SplitFrom(Tail(text), Append(current, text[1]))

Split(text) == SplitFrom(text, <<>>)

----------------------------------------------------------------------------
(* Text-diff scorer: computeLCS, buildDiff, compareTexts *)

(* One cell of the table from its three neighbours *)
LcsCell_upOnly(equal, diagonal, up, left) ==
    IF equal THEN diagonal + 1 ELSE up

LcsCell(equal, diagonal, up, left) ==
    IF equal THEN diagonal + 1 ELSE Max(up, left)

(* Row i of the table, entries 0..j, from the row above *)
RECURSIVE LcsRow(_, _, _, _, _)
LcsRow(a, b, i, above, j) ==
    IF j = 0 THEN [x \in {0} |-> 0]
    ELSE LET left == LcsRow(a, b, i, above, j - 1)
             cell == LcsCell(a[i] = b[j], above[j - 1], above[j], left[j - 1])
         IN  [x \in 0..j |-> IF x = j THEN cell ELSE left[x]]

(* Rows 0..i of the table *)
RECURSIVE LcsRows(_, _, _)
LcsRows(a, b, i) ==
    IF i = 0 THEN [r \in {0} |-> [x \in 0..Len(b) |-> 0]]
    ELSE LET rows == LcsRows(a, b, i - 1)
             row == LcsRow(a, b, i, rows[i - 1], Len(b))
         IN  [r \in 0..i |-> IF r = i THEN row ELSE rows[r]]

computeLCS(a, b) == LcsRows(a, b, Len(a))

(* The backtracking loop from (i, j); results in push order (last word first) *)
PrefersExtra_ignoringTable(dp, i, j) == TRUE

(* i === 0 || dp[i][j - 1] >= dp[i - 1][j] *)
PrefersExtra(dp, i, j) == i = 0 \/ dp[i][j - 1] >= dp[i - 1][j]

ExtraWord_markedMissing(word) == [word |-> word, status |-> "missing"]

(* results.push({ word: spoken[j - 1], status: "extra" }) *)
ExtraWord(word) == [word |-> word, status |-> "extra"]

RECURSIVE DiffLoop(_, _, _, _, _)
DiffLoop(original, spoken, dp, i, j) ==
    IF ~(i > 0 \/ j > 0) THEN <<>>
    ELSE IF i > 0 /\ j > 0 /\ original[i] = spoken[j]
         THEN <<[word |-> original[i], status |-> "correct"]>>
              \o DiffLoop(original, spoken, dp, i - 1, j - 1)
    ELSE IF j > 0 /\ PrefersExtra(dp, i, j)
         THEN <<ExtraWord(spoken[j])>>
              \o DiffLoop(original, spoken, dp, i, j - 1)
    ELSE <<[word |-> original[i], status |-> "missing"]>>
         \o DiffLoop(original, spoken, dp, i - 1, j)

buildDiff_noReverse(original, spoken, dp) ==
    DiffLoop(original, spoken, dp, Len(original), Len(spoken))

buildDiff(original, spoken, dp) ==
    Reverse(DiffLoop(original, spoken, dp, Len(original), Len(spoken)))

(* Math.round((num / den) * 100), den > 0 *)
RoundPercent(num, den) == (200 * num + den) \div (2 * den)

CountStatus(words, status) ==
    Cardinality({i \in DOMAIN words : words[i].status = status})

compareTexts(original, spoken) ==
    LET normOriginal == normalizeText(original)
        normSpoken == normalizeText(spoken)
        spokenWords == IF normSpoken # <<>> THEN Split(normSpoken) ELSE <<>>
    IN  IF normOriginal = <<>>
        THEN [done |-> TRUE,
              words |-> [i \in 1..Len(spokenWords) |->
                            [word |-> spokenWords[i], status |-> "extra"]],
              score |-> IF Len(spokenWords) = 0 THEN 100 ELSE 0]
        ELSE LET originalWords == Split(normOriginal)
             IN  IF Len(spokenWords) = 0
                 THEN [done |-> TRUE,
                       words |-> [i \in 1..Len(originalWords) |->
                                     [word |-> originalWords[i],
                                      status |-> "missing"]],
                       score |-> 0]
                 ELSE LET dp == computeLCS(originalWords, spokenWords)
                          words == buildDiff(originalWords, spokenWords, dp)
                      IN  [done |-> TRUE,
                           words |-> words,
                           score |-> RoundPercent(CountStatus(words, "correct"),
                                                  Len(originalWords))]

----------------------------------------------------------------------------
(* Specification of computeLCS: any two word lists, one call *)

LcsWords == {<<"a">>, <<"b">>, <<"c">>}

LcsInputs ==
    /\ lcsA \in SeqsUpTo(LcsWords, MaxWords)
    /\ lcsB \in SeqsUpTo(LcsWords, MaxWords)
    /\ lcsDp = None
    /\ lcsDiff = None
    /\ lcsCmp = None

ComputeLCS ==
    /\ ~lcsDp.done
    /\ lcsDp' = [done |-> TRUE, dp |-> computeLCS(lcsA, lcsB)]
    /\ UNCHANGED <<lcsA, lcsB, lcsDiff, lcsCmp>>
    /\ UNCHANGED exceptLcs

(* buildDiff on the two lists and the table computeLCS returned for them *)
BuildDiff ==
    /\ lcsDp.done /\ ~lcsDiff.done
    /\ lcsDiff' = [done |-> TRUE, words |-> buildDiff(lcsA, lcsB, lcsDp.dp)]
    /\ UNCHANGED <<lcsA, lcsB, lcsDp, lcsCmp>>
    /\ UNCHANGED exceptLcs

(* The text whose words are ws *)
RECURSIVE JoinBySpace(_)
JoinBySpace(ws) ==
    IF ws = <<>> THEN <<>>
    ELSE IF Len(ws) = 1 THEN ws[1]
    ELSE ws[1] \o <<" ">> \o JoinBySpace(Tail(ws))

(* compareTexts on the texts of the two word lists *)
CompareWordLists ==
    /\ ~lcsCmp.done
    /\ lcsCmp' = compareTexts(JoinBySpace(lcsA), JoinBySpace(lcsB))
    /\ UNCHANGED <<lcsA, lcsB, lcsDp, lcsDiff>>
    /\ UNCHANGED exceptLcs

(* The subsequence of s at the positions in I *)
RECURSIVE SubseqAt(_, _, _)
SubseqAt(s, I, k) ==
    IF k > Len(s) THEN <<>>
    ELSE IF k \in I THEN <<s[k]>> \o SubseqAt(s, I, k + 1)
    ELSE SubseqAt(s, I, k + 1)

Subsequences(s) == {SubseqAt(s, I, 1) : I \in SUBSET (1..Len(s))}

(* Length of a longest common subsequence, by its definition *)
LcsLength(a, b) ==
    SetMax({Len(x) : x \in {y \in Subsequences(a) : IsSubseq(y, b)}})

(* C5: computeLCS returns (|a|+1) rows by (|b|+1) columns, every cell       *)
(* dp[i][j] is the length of a longest common subsequence of the first i    *)
(* words of a and the first j words of b, and computeLCS([], []) is [[0]].  *)
C5_LcsTableCorrect ==
    lcsDp.done =>
        /\ DOMAIN lcsDp.dp = 0..Len(lcsA)
        /\ \A i \in 0..Len(lcsA) :
              /\ DOMAIN lcsDp.dp[i] = 0..Len(lcsB)
              /\ \A j \in 0..Len(lcsB) :
                    lcsDp.dp[i][j] =
                        LcsLength(SubSeq(lcsA, 1, i), SubSeq(lcsB, 1, j))
        /\ ((lcsA = <<>> /\ lcsB = <<>>) =>
               lcsDp.dp = [r \in {0} |-> [x \in {0} |-> 0]])

(* a table for two lists that share a subsequence of two non-adjacent words *)
C5_Witness ==
    /\ lcsDp.done
    /\ Len(lcsA) = 3 /\ Len(lcsB) = 3
    /\ lcsA # lcsB
    /\ lcsDp.dp[3][3] = 2

(* The words of the entries whose status is in statuses, in order *)
WordsWithStatus(words, statuses) ==
    LET kept == SelectSeq(words, LAMBDA w : w.status \in statuses)
    IN  [k \in 1..Len(kept) |-> kept[k].word]

(* C20: the list buildDiff returns for two word lists and their LCS table,  *)
(* restricted to the entries marked correct or missing, is the expected     *)
(* list; restricted to the entries marked correct or extra, it is the       *)
(* spoken list; it has |expected| + |spoken| - #correct entries, so the     *)
(* backtracking loop ends after at most |expected| + |spoken| iterations.   *)
C20_DiffProjectsOntoBothLists ==
    lcsDiff.done =>
        /\ WordsWithStatus(lcsDiff.words, {"correct", "missing"}) = lcsA
        /\ WordsWithStatus(lcsDiff.words, {"correct", "extra"}) = lcsB
        /\ Len(lcsDiff.words) =
               Len(lcsA) + Len(lcsB) - CountStatus(lcsDiff.words, "correct")
        /\ Len(lcsDiff.words) <= Len(lcsA) + Len(lcsB)
        /\ \A k \in 1..Len(lcsDiff.words) :
               lcsDiff.words[k].status \in {"correct", "missing", "extra"}

(* a diff that holds a correct, a missing and an extra entry *)
C20_Witness ==
    /\ lcsDiff.done
    /\ lcsA = <<<<"a">>, <<"b">>, <<"c">>>>
    /\ lcsB = <<<<"b">>, <<"a">>, <<"c">>>>
    /\ \A st \in {"correct", "missing", "extra"} :
           CountStatus(lcsDiff.words, st) > 0
    /\ Len(lcsDiff.words) = 4

(* C29: for non-empty expected and spoken word lists the number of        *)
(* entries buildDiff marks correct is dp[m][n], the LCS length of the two  *)
(* lists, so compareTexts returns round(100 x LCS length / number of       *)
(* expected words), an integer between 0 and 100.                          *)
C29_CorrectCountIsLcsLength ==
    (lcsA # <<>> /\ lcsB # <<>>) =>
        /\ lcsDiff.done =>
               /\ CountStatus(lcsDiff.words, "correct") =
                      lcsDp.dp[Len(lcsA)][Len(lcsB)]
               /\ CountStatus(lcsDiff.words, "correct") = LcsLength(lcsA, lcsB)
        /\ lcsCmp.done =>
               /\ lcsCmp.score =
                      (200 * LcsLength(lcsA, lcsB) + Len(lcsA)) \div (2 * Len(lcsA))
               /\ lcsCmp.score \in 0..100
               /\ CountStatus(lcsCmp.words, "correct") = LcsLength(lcsA, lcsB)

(* two of three expected words are matched, in a spoken list that starts   *)
(* with the last expected word                                             *)
C29_Witness ==
    /\ lcsDiff.done /\ lcsCmp.done
    /\ lcsA = <<<<"a">>, <<"b">>, <<"c">>>>
    /\ lcsB = <<<<"c">>, <<"a">>, <<"b">>>>
    /\ CountStatus(lcsDiff.words, "correct") = 2
    /\ lcsCmp.score = 67

SpecLcsInit ==
    /\ LcsInputs
    /\ IdleExceptLcs

SpecLcsNext == ComputeLCS \/ BuildDiff \/ CompareWordLists

SpecLcs == SpecLcsInit /\ [][SpecLcsNext]_vars

----------------------------------------------------------------------------
(* Specification of compareTexts: an original text, a spoken text, one call *)

CmpChars == {"a", "B", " ", "-", "."}

CmpInputs ==
    /\ cmpOriginal \in SeqsUpTo(CmpChars, MaxTextLen)
    /\ cmpSpoken \in {cmpOriginal} \cup SeqsUpTo(CmpChars, MaxSpokenLen)
    /\ cmpResult = None

CompareTexts ==
    /\ ~cmpResult.done
    /\ cmpResult' = compareTexts(cmpOriginal, cmpSpoken)
    /\ UNCHANGED <<cmpOriginal, cmpSpoken>>
    /\ UNCHANGED exceptCmp

(* C4: for a text A whose normalized form is non-empty, compareTexts(A, A)  *)
(* has score 100 and its word list is exactly A's normalized words in       *)
(* order, each correct, with no missing or extra entry.                     *)
C4_SelfCompareAllCorrect ==
    (/\ cmpResult.done
     /\ cmpSpoken = cmpOriginal
     /\ normalizeText(cmpOriginal) # <<>>) =>
        LET W == Split(normalizeText(cmpOriginal))
        IN  /\ cmpResult.score = 100
            /\ cmpResult.words =
                   [i \in 1..Len(W) |-> [word |-> W[i], status |-> "correct"]]

(* a text compared with itself that repeats a word *)
C4_Witness ==
    /\ cmpResult.done
    /\ cmpSpoken = cmpOriginal
    /\ LET W == Split(normalizeText(cmpOriginal))
       IN  Len(W) >= 2 /\ W[1] = W[2] /\ W[1] # <<>>

SpecCompareInit ==
    /\ CmpInputs
    /\ IdleExceptCmp

SpecCompareNext == CompareTexts

SpecCompare == SpecCompareInit /\ [][SpecCompareNext]_vars

----------------------------------------------------------------------------
(* Phoneme lookup: getPhonemes, phonemeToIpa *)

Str_the == <<"t", "h", "e">>
Str_tea == <<"t", "e", "a">>
Str_it == <<"i", "t">>
Str_he == <<"h", "e">>
Str_zz == <<"z", "z">>
Str_de == <<"d", "e">>

(* The entries of the CMU pronouncing dictionary for the model's words,    *)
(* as the package gives them: phonemes separated by spaces, vowels         *)
(* carrying a stress digit.  Str_zz has no entry.                          *)
cmuDict ==
    [w \in {Str_the, Str_tea, Str_it, Str_he} |->
        CASE w = Str_the -> <<"D", "H", " ", "A", "H", "0">>
          [] w = Str_tea -> <<"T", " ", "I", "Y", "1">>
          [] w = Str_it  -> <<"I", "H", "1", " ", "T">>
          [] w = Str_he  -> <<"H", "H", " ", "I", "Y", "1">>]

IsNotDigit(c) == c \notin Digits

(* p.replace(/[0-9]/g, "") *)
StripStress(p) == SelectSeq(p, IsNotDigit)

getPhonemes(word) ==
    LET key == toLowerCase(word)
    IN  IF key \notin DOMAIN cmuDict THEN <<>>
        ELSE LET parts == Split(cmuDict[key])
             IN  [i \in 1..Len(parts) |-> StripStress(parts[i])]

AA == <<"A", "A">>
AE == <<"A", "E">>
AH == <<"A", "H">>
AO == <<"A", "O">>
AW == <<"A", "W">>
AY == <<"A", "Y">>
DH == <<"D", "H">>
EH == <<"E", "H">>
ER == <<"E", "R">>
EY == <<"E", "Y">>
HH == <<"H", "H">>
IH == <<"I", "H">>
IY == <<"I", "Y">>
NG == <<"N", "G">>
OW == <<"O", "W">>
OY == <<"O", "Y">>
TH == <<"T", "H">>
UH == <<"U", "H">>
UW == <<"U", "W">>
ZH == <<"Z", "H">>
PhD == <<"D">>
PhL == <<"L">>
PhR == <<"R">>
PhS == <<"S">>
PhT == <<"T">>
PhZ == <<"Z">>

(* ARPABET_TO_IPA for the phonemes of the model's dictionary; the IPA      *)
(* letters are written by name.                                            *)
ARPABET_TO_IPA ==
    [p \in {DH, AH, PhT, IY, IH, HH} |->
        CASE p = DH -> <<"e", "t", "h">>
          [] p = AH -> <<"t", "u", "r", "n", "e", "d", "v">>
          [] p = PhT -> <<"t">>
          [] p = IY -> <<"i">>
          [] p = IH -> <<"s", "m", "a", "l", "l", "c", "a", "p", "i">>
          [] p = HH -> <<"h">>]

phonemeToIpa(arpabet) ==
    IF arpabet \in DOMAIN ARPABET_TO_IPA THEN ARPABET_TO_IPA[arpabet]
    ELSE toLowerCase(arpabet)

----------------------------------------------------------------------------
(* L1 accent adjuster: applyL1Scoring *)

THRESHOLD == 450000        \* 0.45
CAP == 850000              \* 0.85
PROSODY_BOOST == 100       \* 0.1, in thousandths
CONFIRMED_BOOST_MULTIPLIER == 1500    \* 1.5, in thousandths

(* in thousandths *)
TIER_BOOST == [t \in {1, 2, 3} |-> CASE t = 1 -> 500 [] t = 2 -> 400 [] t = 3 -> 250]

Vowels == {AA, AE, AH, AO, AW, AY, EH, ER, EY, IH, IY, OW, OY, UH, UW}

isCoda(phonemes, idx) ==
    IF idx >= Len(phonemes) THEN TRUE
    ELSE phonemes[idx + 1] \notin Vowels

isBeforeHighFrontVowel(phonemes, idx) ==
    IF idx >= Len(phonemes) THEN FALSE
    ELSE phonemes[idx + 1] = IH \/ phonemes[idx + 1] = IY

(* BR_CONFUSION: tier, feedback and the context predicate by name *)
Entry(tier, feedback, context) ==
    [tier |-> tier, feedback |-> feedback, context |-> context]

BR_CONFUSION ==
    [p \in {TH, DH, PhR, NG, ZH, AE, IH, AH, UH, EY, OW, ER, AY, AW, OY,
            HH, PhL, PhT, PhD, PhS, PhZ} |->
        CASE p = TH  -> Entry(1, "th -> t/f", "none")
          [] p = DH  -> Entry(1, "dh -> d/v", "none")
          [] p = PhR -> Entry(1, "r -> h", "none")
          [] p = NG  -> Entry(1, "ng -> n", "none")
          [] p = ZH  -> Entry(1, "zh -> z/sh", "none")
          [] p = AE  -> Entry(2, "ae -> eh/aa", "none")
          [] p = IH  -> Entry(2, "ih -> i", "none")
          [] p = AH  -> Entry(2, "ah -> aa/ao", "none")
          [] p = UH  -> Entry(2, "uh -> u", "none")
          [] p = EY  -> Entry(2, "ey -> eh", "none")
          [] p = OW  -> Entry(2, "ow -> ao", "none")
          [] p = ER  -> Entry(2, "er -> eh r", "none")
          [] p = AY  -> Entry(2, "ay -> a", "none")
          [] p = AW  -> Entry(2, "aw -> a/ao", "none")
          [] p = OY  -> Entry(2, "oy -> ao", "none")
          [] p = HH  -> Entry(3, "h silent", "none")
          [] p = PhL -> Entry(3, "l -> w", "isCoda")
          [] p = PhT -> Entry(3, "t -> ch before /i/", "isBeforeHighFrontVowel")
          [] p = PhD -> Entry(3, "d -> jh before /i/", "isBeforeHighFrontVowel")
          [] p = PhS -> Entry(3, "s -> sh (coda)", "isCoda")
          [] p = PhZ -> Entry(3, "z -> s (devoicing)", "isCoda")]

(* confusion.context && !confusion.context(phonemes, idx) *)
ContextFails(confusion, phonemes, idx) ==
    CASE confusion.context = "none" -> FALSE
      [] confusion.context = "isCoda" -> ~isCoda(phonemes, idx)
      [] confusion.context = "isBeforeHighFrontVowel" ->
             ~isBeforeHighFrontVowel(phonemes, idx)

(* String helpers of isSubstitutionConfirmed *)
startsWith(str, prefix) ==
    Len(prefix) <= Len(str) /\ SubSeq(str, 1, Len(prefix)) = prefix

endsWith(str, suffix) ==
    Len(suffix) <= Len(str)
    /\ SubSeq(str, Len(str) - Len(suffix) + 1, Len(str)) = suffix

includes(str, part) ==
    \E i \in 0..(Len(str) - Len(part)) : SubSeq(str, i + 1, i + Len(part)) = part

(* str.replace(/th/g, by) *)
RECURSIVE ReplaceTh(_, _)
ReplaceTh(str, by) ==
    IF str = <<>> THEN <<>>
    ELSE IF startsWith(str, <<"t", "h">>)
         THEN by \o ReplaceTh(SubSeq(str, 3, Len(str)), by)
         ELSE <<str[1]>> \o ReplaceTh(Tail(str), by)

(* The loop over the nearby decoded words, with its early returns *)
RECURSIVE ConfirmedLoop(_, _)
ConfirmedLoop(expected, decodedWords) ==
    IF decodedWords = <<>> THEN FALSE
    ELSE LET decoded == toLowerCase(decodedWords[1])
         IN  IF decoded = expected THEN FALSE
             ELSE IF /\ includes(expected, <<"t", "h">>)
                     /\ (\/ includes(decoded, <<"t">>)
                         \/ includes(decoded, <<"d">>)
                         \/ includes(decoded, <<"f">>))
                     /\ (\/ decoded = ReplaceTh(expected, <<"t">>)
                         \/ decoded = ReplaceTh(expected, <<"d">>)
                         \/ decoded = ReplaceTh(expected, <<"f">>))
                  THEN TRUE
             ELSE IF /\ Len(decoded) > Len(expected)
                     /\ (\/ startsWith(decoded, <<"i">> \o expected)
                         \/ startsWith(decoded, <<"e">> \o expected))
                  THEN TRUE
             ELSE IF /\ Len(decoded) = Len(expected) + 1
                     /\ startsWith(decoded, expected)
                     /\ (endsWith(decoded, <<"i">>) \/ endsWith(decoded, <<"e">>))
                  THEN TRUE
             ELSE ConfirmedLoop(expected, Tail(decodedWords))

isSubstitutionConfirmed(expectedWord, decodedWords) ==
    IF Len(decodedWords) = 0 THEN FALSE
    ELSE ConfirmedLoop(toLowerCase(expectedWord), decodedWords)

(* {...obj, field: value, ...}: the fields of upd override or extend obj *)
Spread(obj, upd) == upd @@ obj

(* Math.min(CAP, score + deficit * factor), deficit = CAP - score; the     *)
(* factor is in thousandths                                                *)
BoostedScore_deficitFromOne(score, factor) ==
    score + ((1000000 - score) * factor) \div 1000

BoostedScore(score, factor) ==
    Min(CAP, score + ((CAP - score) * factor) \div 1000)

(* The boost factor in thousandths: the base factor, times the             *)
(* confirmation multiplier when it applies                                 *)
BoostFactor(base, multiplied) ==
    IF multiplied THEN (base * CONFIRMED_BOOST_MULTIPLIER) \div 1000 ELSE base

Adjusted(ph, score, feedback) ==
    Spread(ph, [originalScore |-> ph.score, score |-> score, l1Feedback |-> feedback])

(* ph.score >= THRESHOLD: acceptable pronunciation, skipped *)
IsAcceptable_strictlyAbove(score) == score > THRESHOLD

IsAcceptable(score) == score >= THRESHOLD

(* The callback of wordResult.phonemes.map: the phoneme object it returns *)
adjustPhoneme(ph, phonemes, idx, confirmed) ==
    IF idx > Len(phonemes) THEN ph
    ELSE IF IsAcceptable(ph.score) THEN ph
    ELSE LET arpabet == phonemes[idx]
         IN  IF arpabet \in DOMAIN BR_CONFUSION
             THEN LET confusion == BR_CONFUSION[arpabet]
                  IN  IF ContextFails(confusion, phonemes, idx)
                      THEN LET adjusted ==
                                   BoostedScore(ph.score,
                                                BoostFactor(PROSODY_BOOST, FALSE))
                           IN  IF adjusted = ph.score THEN ph
                               ELSE Adjusted(ph, adjusted, "prosody/accent")
                      ELSE Adjusted(ph,
                                    BoostedScore(ph.score,
                                        BoostFactor(TIER_BOOST[confusion.tier],
                                                    confirmed)),
                                    confusion.feedback)
             ELSE LET adjusted ==
                          BoostedScore(ph.score,
                                       BoostFactor(PROSODY_BOOST, confirmed))
                  IN  IF adjusted = ph.score THEN ph
                      ELSE Adjusted(ph, adjusted, "prosody/accent")

(* What a phoneme object of the argument holds after the callback has run  *)
(* on it: the callback builds a new object and assigns to none of ph's     *)
(* fields.                                                                 *)
PhonemeAfterCall_writtenInPlace(ph, phonemes, idx, confirmed) ==
    adjustPhoneme(ph, phonemes, idx, confirmed)

PhonemeAfterCall(ph, phonemes, idx, confirmed) == ph

(* Math.round(avg * 100), avg the mean of n >= 1 scores whose sum is given *)
RoundMeanTimes100(sum, n) == (sum + 5000 * n) \div (10000 * n)

(* Math.round(sum / n), n >= 1, sum >= 0 *)
RoundMean(sum, n) == (2 * sum + n) \div (2 * n)

decodedWordsOf(result) ==
    IF "decodedTranscript" \in DOMAIN result /\ result.decodedTranscript # <<>>
    THEN SelectSeq(Split(normalizeText(result.decodedTranscript)),
                   LAMBDA w : w # <<>>)
    ELSE <<>>

(* decodedWords.slice(max(0, wordIdx - 1), min(length, wordIdx + 2)), with *)
(* wordIdx counted from 1 here                                             *)
nearbyDecoded(decodedWords, wordIdx) ==
    SubSeq(decodedWords, Max(1, wordIdx - 1), Min(Len(decodedWords), wordIdx + 1))

wordConfirmed(result, wordIdx) ==
    isSubstitutionConfirmed(result.words[wordIdx].word,
                            nearbyDecoded(decodedWordsOf(result), wordIdx))

(* The callback of result.words.map: the word object it returns *)
adjustWord(result, wordIdx) ==
    LET wordResult == result.words[wordIdx]
        phonemes == getPhonemes(wordResult.word)
        confirmed == wordConfirmed(result, wordIdx)
        adjustedPhonemes ==
            [idx \in 1..Len(wordResult.phonemes) |->
                adjustPhoneme(wordResult.phonemes[idx], phonemes, idx, confirmed)]
        sum == SeqSum([idx \in 1..Len(adjustedPhonemes) |->
                          adjustedPhonemes[idx].score])
    IN  Spread(wordResult,
               [phonemes |-> adjustedPhonemes,
                originalScore |-> wordResult.score,
                score |-> IF Len(adjustedPhonemes) > 0
                          THEN RoundMeanTimes100(sum, Len(adjustedPhonemes))
                          ELSE 0])

IsSupportedL1_ignoringCase(l1) ==
    toLowerCase(l1) = toLowerCase(<<"p", "t", "-", "B", "R">>)

IsSupportedL1(l1) == l1 = <<"p", "t", "-", "B", "R">>

(* The value applyL1Scoring returns *)
applyL1Scoring(result, l1) ==
    IF ~IsSupportedL1(l1) THEN result
    ELSE LET adjustedWords ==
                 [wi \in 1..Len(result.words) |-> adjustWord(result, wi)]
             sum == SeqSum([wi \in 1..Len(adjustedWords) |->
                               adjustedWords[wi].score])
         IN  Spread(result,
                    [words |-> adjustedWords,
                     originalOverallScore |-> result.overallScore,
                     overallScore |-> IF Len(adjustedWords) > 0
                                      THEN RoundMean(sum, Len(adjustedWords))
                                      ELSE 0])

(* What the argument object, its words and its phonemes hold after the call *)
argumentAfterL1Scoring(result, l1) ==
    IF ~IsSupportedL1(l1) THEN result
    ELSE [result EXCEPT !.words =
            [wi \in 1..Len(result.words) |->
                [result.words[wi] EXCEPT !.phonemes =
                    [idx \in 1..Len(result.words[wi].phonemes) |->
                        PhonemeAfterCall(result.words[wi].phonemes[idx],
                                         getPhonemes(result.words[wi].word),
                                         idx,
                                         wordConfirmed(result, wi))]]]]

----------------------------------------------------------------------------
(* Specification of applyL1Scoring: a PronunciationResult, a tag, one call *)

ScoreValues == {200000, 440000, 450000}

L1Words == {Str_the, Str_tea, Str_it, Str_he, Str_zz}

PhonemeScoreOf(symbol, score) ==
    [phoneme |-> symbol, score |-> score, expected |-> TRUE]

(* Word results shaped as computeGopScores shapes them: one phoneme per    *)
(* dictionary phoneme, or the word itself as the only phoneme              *)
WordResultsOf(word) ==
    LET ph == getPhonemes(word)
    IN  IF ph = <<>>
        THEN {[word |-> word,
               phonemes |-> <<PhonemeScoreOf(word, sc)>>,
               score |-> RoundMeanTimes100(sc, 1)] : sc \in ScoreValues}
        ELSE {[word |-> word,
               phonemes |-> [i \in 1..Len(ph) |->
                                PhonemeScoreOf(phonemeToIpa(ph[i]), f[i])],
               score |-> RoundMeanTimes100(SeqSum(f), Len(ph))] :
                 f \in [1..Len(ph) -> ScoreValues]}

WordResults == UNION {WordResultsOf(w) : w \in L1Words}

RECURSIVE JoinWords(_)
JoinWords(ws) ==
    IF ws = <<>> THEN <<>>
    ELSE IF Len(ws) = 1 THEN ws[1].word
    ELSE ws[1].word \o <<" ">> \o JoinWords(Tail(ws))

ResultOf(ws) ==
    [words |-> ws,
     overallScore |-> IF Len(ws) > 0
                      THEN RoundMean(SeqSum([i \in 1..Len(ws) |-> ws[i].score]),
                                     Len(ws))
                      ELSE 0,
     transcript |-> JoinWords(ws)]

(* What the greedy decode may have heard: the word "de", the word "the",  *)
(* the word "it" with a final epenthetic vowel                            *)
DecodedTranscripts == {Str_de, Str_the, <<"i", "t", "i">>}

L1Results ==
    LET plain == {ResultOf(ws) : ws \in SeqsUpTo(WordResults, MaxL1Words)}
    IN  plain \cup
        {Spread(r, [decodedTranscript |-> d]) :
            r \in plain, d \in DecodedTranscripts}

L1Tags == {<<"p", "t", "-", "B", "R">>, <<"p", "t", "-", "b", "r">>,
           <<"e", "n", "-", "U", "S">>}

L1Inputs ==
    /\ l1Arg \in L1Results
    /\ l1Tag \in L1Tags
    /\ l1Ret = None

ApplyL1Scoring ==
    /\ ~l1Ret.done
    /\ l1Ret' = [done |-> TRUE,
                 given |-> l1Arg,
                 value |-> applyL1Scoring(l1Arg, l1Tag)]
    /\ l1Arg' = argumentAfterL1Scoring(l1Arg, l1Tag)
    /\ UNCHANGED l1Tag
    /\ UNCHANGED exceptL1

(* The phoneme positions of the given result that the dictionary names *)
L1Positions ==
    {p \in {<<wi, idx>> : wi \in 1..MaxL1Words + 1, idx \in 1..3} :
        /\ p[1] <= Len(l1Ret.given.words)
        /\ p[2] <= Len(l1Ret.given.words[p[1]].phonemes)
        /\ p[2] <= Len(getPhonemes(l1Ret.given.words[p[1]].word))}

(* A tier-3 phoneme below the threshold whose context predicate is false *)
IsContextMiss(p) ==
    LET phonemes == getPhonemes(l1Ret.given.words[p[1]].word)
        arpabet == phonemes[p[2]]
    IN  /\ l1Ret.given.words[p[1]].phonemes[p[2]].score < 450000
        /\ arpabet \in DOMAIN BR_CONFUSION
        /\ BR_CONFUSION[arpabet].tier = 3
        /\ BR_CONFUSION[arpabet].context # "none"
        /\ ~(IF BR_CONFUSION[arpabet].context = "isCoda"
             THEN isCoda(phonemes, p[2])
             ELSE isBeforeHighFrontVowel(phonemes, p[2]))

(* min(0.85, score + (0.85 - score) x 0.10), the boost times 1.5 when the  *)
(* substitution is confirmed                                               *)
ProsodyBoosted(score, confirmed) ==
    Min(850000,
        score + ((850000 - score) * (IF confirmed THEN 150 ELSE 100)) \div 1000)

(* C21: for pt-BR, a phoneme below 0.45 whose confusion entry is tier 3    *)
(* and whose context predicate is false gets the generic prosody boost of  *)
(* a phoneme without entry, times 1.5 when the substitution is confirmed,  *)
(* and the feedback prosody/accent.                                        *)
C21_ContextMissGetsProsodyBoost ==
    (l1Ret.done /\ l1Tag = <<"p", "t", "-", "B", "R">>) =>
        \A p \in L1Positions :
            IsContextMiss(p) =>
                LET out == l1Ret.value.words[p[1]].phonemes[p[2]]
                    given == l1Ret.given.words[p[1]].phonemes[p[2]]
                IN  /\ out.score =
                           ProsodyBoosted(given.score,
                                          wordConfirmed(l1Ret.given, p[1]))
                    /\ "l1Feedback" \in DOMAIN out
                    /\ out.l1Feedback = "prosody/accent"

(* The same statement for the words whose substitution is not confirmed *)
C21_UnconfirmedContextMiss ==
    (l1Ret.done /\ l1Tag = <<"p", "t", "-", "B", "R">>) =>
        \A p \in L1Positions :
            (IsContextMiss(p) /\ ~wordConfirmed(l1Ret.given, p[1])) =>
                LET out == l1Ret.value.words[p[1]].phonemes[p[2]]
                    given == l1Ret.given.words[p[1]].phonemes[p[2]]
                IN  /\ out.score = ProsodyBoosted(given.score, FALSE)
                    /\ "l1Feedback" \in DOMAIN out
                    /\ out.l1Feedback = "prosody/accent"

SpecL1Init ==
    /\ L1Inputs
    /\ IdleExceptL1

SpecL1Next == ApplyL1Scoring

SpecL1 == SpecL1Init /\ [][SpecL1Next]_vars

----------------------------------------------------------------------------
(* Properties of the L1 adjuster *)

PT_BR == <<"p", "t", "-", "B", "R">>

(* The (word, phoneme) positions of a result *)
PhonemePositions(result) ==
    {<<w, i>> \in (DOMAIN result.words) \X (1..8) :
        i \in DOMAIN result.words[w].phonemes}

SameShape(r1, r2) ==
    /\ Len(r1.words) = Len(r2.words)
    /\ \A w \in DOMAIN r1.words :
           Len(r1.words[w].phonemes) = Len(r2.words[w].phonemes)

l1In(pos) == l1Ret.given.words[pos[1]].phonemes[pos[2]]
l1Out(pos) == l1Ret.value.words[pos[1]].phonemes[pos[2]]

(* C6: for pt-BR, every phoneme the call adjusts (attaches originalScore   *)
(* to) has an output score strictly above its input score and at most 0.85 *)
C6_AdjustedScoreRaisedAndCapped ==
    (l1Ret.done /\ l1Tag = PT_BR) =>
        \A pos \in PhonemePositions(l1Ret.value) :
            "originalScore" \in DOMAIN l1Out(pos) =>
                /\ l1Out(pos).score > l1In(pos).score
                /\ l1Out(pos).score <= CAP
                /\ l1Out(pos).originalScore = l1In(pos).score

(* a tier 1 phoneme at 0.44 boosted with the 1.5x confirmation multiplier: *)
(* 0.44 + 0.41 * 0.75 = 0.7475                                             *)
C6_Witness ==
    /\ l1Ret.done /\ l1Tag = PT_BR
    /\ \E pos \in PhonemePositions(l1Ret.value) :
           /\ "originalScore" \in DOMAIN l1Out(pos)
           /\ l1In(pos).score = 440000
           /\ l1Out(pos).score = 747500

(* C7: for pt-BR, every input phoneme at or above 0.45 is in the output    *)
(* with the same score, no l1Feedback and no originalScore.                *)
C7_AcceptablePhonemesUntouched ==
    (l1Ret.done /\ l1Tag = PT_BR) =>
        /\ SameShape(l1Ret.given, l1Ret.value)
        /\ \A pos \in PhonemePositions(l1Ret.given) :
               l1In(pos).score >= THRESHOLD =>
                   /\ l1Out(pos).score = l1In(pos).score
                   /\ "l1Feedback" \notin DOMAIN l1Out(pos)
                   /\ "originalScore" \notin DOMAIN l1Out(pos)

(* a tier 1 phoneme exactly at 0.45 in a confirmed word, beside a phoneme   *)
(* of the same word that was adjusted                                      *)
C7_Witness ==
    /\ l1Ret.done /\ l1Tag = PT_BR
    /\ \E pos \in PhonemePositions(l1Ret.given) :
           /\ l1In(pos).score = THRESHOLD
           /\ l1Ret.given.words[pos[1]].word = Str_the
           /\ pos[2] = 1
           /\ wordConfirmed(l1Ret.given, pos[1])
           /\ "originalScore" \in DOMAIN l1Out(<<pos[1], 2>>)

(* C8: for every tag other than pt-BR the result equals the input: same    *)
(* overallScore, same word scores, same phoneme scores, and no             *)
(* originalScore, originalOverallScore or l1Feedback added.                *)
C8_OtherTagsUnchanged ==
    (l1Ret.done /\ l1Tag # PT_BR) =>
        /\ l1Ret.value = l1Ret.given
        /\ l1Ret.value.overallScore = l1Ret.given.overallScore
        /\ "originalOverallScore" \notin DOMAIN l1Ret.value
        /\ \A w \in DOMAIN l1Ret.value.words :
               /\ l1Ret.value.words[w].score = l1Ret.given.words[w].score
               /\ "originalScore" \notin DOMAIN l1Ret.value.words[w]
        /\ \A pos \in PhonemePositions(l1Ret.value) :
               /\ l1Out(pos).score = l1In(pos).score
               /\ "originalScore" \notin DOMAIN l1Out(pos)
               /\ "l1Feedback" \notin DOMAIN l1Out(pos)

(* a call with the tag pt-br on a result with a phoneme below the threshold *)
C8_Witness ==
    /\ l1Ret.done
    /\ l1Tag = <<"p", "t", "-", "b", "r">>
    /\ \E pos \in PhonemePositions(l1Ret.given) : l1In(pos).score < THRESHOLD

----------------------------------------------------------------------------
(* Subword tokenizer: the loaded vocabulary, tokenizeText, getWordTokenRanges *)

WORD_PREFIX == "^"         \* stands for U+2581, which is not a \w character
MAX_PIECE_LEN == 20

(* tokenMap after loadTokens has read the model's tokens.txt:              *)
(*   <unk> 0, ^the 1, ^i 2, t 3, and the blank at 1024                     *)
tokenMap ==
    [piece \in {<<"<", "u", "n", "k", ">">>, <<"^", "t", "h", "e">>,
                <<"^", "i">>, <<"t">>, <<"<", "b", "l", "k", ">">>} |->
        CASE piece = <<"<", "u", "n", "k", ">">> -> 0
          [] piece = <<"^", "t", "h", "e">> -> 1
          [] piece = <<"^", "i">> -> 2
          [] piece = <<"t">> -> 3
          [] piece = <<"<", "b", "l", "k", ">">> -> 1024]

reverseTokenMap ==
    [id \in {tokenMap[piece] : piece \in DOMAIN tokenMap} |->
        CHOOSE piece \in DOMAIN tokenMap : tokenMap[piece] = id]

(* The module's vocabulary state: tokenMap is null until loadTokens runs *)
NoVocab == [loaded |-> FALSE]

VocabOf(map) == [loaded |-> TRUE, map |-> map]

(* The for loop from the longest length down, leaving at the first match *)
LongestMatch_shortestFirst(lens) == CHOOSE len \in lens : \A other \in lens : len <= other

LongestMatch(lens) == SetMax(lens)

(* The while loop over one prefixed word from position pos (1-based); map  *)
(* is the loaded tokenMap                                                  *)
RECURSIVE TokenizeWord(_, _, _)
TokenizeWord(map, prefixedWord, pos) ==
    IF pos > Len(prefixedWord) THEN <<>>
    ELSE LET lens == {len \in 1..Min(Len(prefixedWord) - pos + 1, MAX_PIECE_LEN) :
                         SubSeq(prefixedWord, pos, pos + len - 1) \in DOMAIN map}
         IN  IF lens = {}
             THEN <<IF <<prefixedWord[pos]>> \in DOMAIN map
                    THEN map[<<prefixedWord[pos]>>] ELSE UNK_IDX>>
                  \o TokenizeWord(map, prefixedWord, pos + 1)
             ELSE LET bestLen == LongestMatch(lens)
                  IN  <<map[SubSeq(prefixedWord, pos, pos + bestLen - 1)]>>
                      \o TokenizeWord(map, prefixedWord, pos + bestLen)

RECURSIVE TokenizeWords(_, _)
TokenizeWords(map, words) ==
    IF words = <<>> THEN <<>>
    ELSE TokenizeWord(map, <<WORD_PREFIX>> \o words[1], 1)
         \o TokenizeWords(map, Tail(words))

tokenizeText(vocab, text) ==
    IF ~vocab.loaded THEN <<>>
    ELSE LET normalized == normalizeText(text)
         IN  IF normalized = <<>> THEN <<>>
             ELSE TokenizeWords(vocab.map, Split(normalized))

PieceOf(id) == IF id \in DOMAIN reverseTokenMap THEN reverseTokenMap[id] ELSE <<>>

(* [start, end) of each word, 0-based token positions as in the source *)
RECURSIVE WordRangesFrom(_, _, _)
WordRangesFrom(tokens, i, currentStart) ==
    IF i >= Len(tokens) THEN <<<<currentStart, Len(tokens)>>>>
    ELSE IF startsWith(PieceOf(tokens[i + 1]), <<WORD_PREFIX>>) /\ i > 0
         THEN <<<<currentStart, i>>>> \o WordRangesFrom(tokens, i + 1, i)
         ELSE WordRangesFrom(tokens, i + 1, currentStart)

getWordTokenRanges(tokens) == WordRangesFrom(tokens, 0, 0)

----------------------------------------------------------------------------
(* Score aggregator: computeGopScores, distributeScoreToPhonemes *)

DEFAULT_LOGPROB == -10

(* 1 / (1 + exp(-(x + 2.0) / 1.5)) in millionths, for x = 0, -1/12, -2/12, *)
(* ..., -10: entry i is x = -(i - 1) / 12                                  *)
SIGMOID_TABLE ==
  <<
    791391, 782071, 772454, 762542, 752336, 741840, 731059, 719997,
    708661, 697059, 685201, 673096, 660756, 648194, 635424, 622459,
    609318, 596015, 582570, 569001, 555328, 541570, 527749, 513885,
    500000, 486115, 472251, 458430, 444672, 430999, 417430, 403985,
    390682, 377541, 364576, 351806, 339244, 326904, 314799, 302941,
    291339, 280003, 268941, 258160, 247664, 237458, 227546, 217929,
    208609, 199585, 190858, 182426, 174285, 166434, 158869, 151585,
    144578, 137842, 131371, 125160, 119203, 113492, 108022, 102784,
    97773, 92980, 88400, 84024, 79846, 75858, 72054, 68427,
    64969, 61675, 58537, 55549, 52706, 50000, 47426, 44978,
    42651, 40440, 38338, 36341, 34445, 32645, 30935, 29312,
    27772, 26311, 24924, 23609, 22362, 21179, 20058, 18994,
    17986, 17031, 16125, 15267, 14454, 13684, 12954, 12262,
    11607, 10987, 10399, 9843, 9316, 8817, 8344, 7897,
    7474, 7072, 6693, 6333, 5993, 5671, 5366, 5078,
    4805
  >>

(* The squash of the average sum / count; the averages of the model have a *)
(* denominator that divides 12                                             *)
Sigmoid(sum, count) == SIGMOID_TABLE[1 - (12 * sum) \div count]

(* Math.round(score * 100) *)
RoundTimes100(score) == (score + 5000) \div 10000

(* frameScores is a sequence; positions are 0-based as in the source *)
SegmentScore(frameScores, nPhonemes, pi) ==
    LET nFrames == Len(frameScores)
        startFrame == (pi * nFrames) \div nPhonemes
        endFrame == Max(startFrame + 1, ((pi + 1) * nFrames) \div nPhonemes)
        last == Min(endFrame, nFrames)
        segment == SubSeq(frameScores, startFrame + 1, last)
    IN  IF Len(segment) > 0 THEN Sigmoid(SeqSum(segment), Len(segment))
        ELSE Sigmoid(DEFAULT_LOGPROB, 1)

distributeScoreToPhonemes(phonemes, frameScores) ==
    IF Len(frameScores) = 0
    THEN [i \in 1..Len(phonemes) |->
             PhonemeScoreOf(phonemeToIpa(phonemes[i]), Sigmoid(DEFAULT_LOGPROB, 1))]
    ELSE [i \in 1..Len(phonemes) |->
             PhonemeScoreOf(phonemeToIpa(phonemes[i]),
                            SegmentScore(frameScores, Len(phonemes), i - 1))]

(* 0-based position of targetToken in tokens: forward from startIdx, then  *)
(* backward from startIdx - 1; -1 when absent                              *)
findTokenInRange(startIdx, tokens, targetToken) ==
    LET forward == {i \in startIdx..(Len(tokens) - 1) : tokens[i + 1] = targetToken}
        backward == {i \in 0..(startIdx - 1) : tokens[i + 1] = targetToken}
    IN  IF forward # {} THEN CHOOSE i \in forward : \A j \in forward : i <= j
        ELSE IF backward # {} THEN CHOOSE i \in backward : \A j \in backward : i >= j
        ELSE -1

(* One iteration of the frame loop, frame t (1-based); st holds tokenIdx   *)
(* (0-based) and tokenFrameScores (one sequence per token, 1-based)        *)
GopFrameStep(st, alignment, scores, tokens, t) ==
    IF ~(alignment[t] # BLANK_IDX /\ st.tokenIdx < Len(tokens)) THEN st
    ELSE LET found == IF alignment[t] = tokens[st.tokenIdx + 1] THEN st.tokenIdx
                      ELSE findTokenInRange(st.tokenIdx, tokens, alignment[t])
             pushed == IF found >= 0
                       THEN [st.tokenFrameScores EXCEPT
                                ![found + 1] = Append(@, scores[t])]
                       ELSE st.tokenFrameScores
             idx1 == IF found >= st.tokenIdx THEN found ELSE st.tokenIdx
             idx2 == IF /\ Len(pushed[idx1 + 1]) > 0
                        /\ idx1 < Len(tokens) - 1
                        /\ t + 1 <= Len(alignment)
                        /\ alignment[t + 1] = tokens[idx1 + 2]
                     THEN idx1 + 1 ELSE idx1
         IN  [tokenIdx |-> idx2, tokenFrameScores |-> pushed]

RECURSIVE GopFrameLoop(_, _, _, _)
GopFrameLoop(alignment, scores, tokens, t) ==
    IF t = 0
    THEN [tokenIdx |-> 0, tokenFrameScores |-> [i \in 1..Len(tokens) |-> <<>>]]
    ELSE GopFrameStep(GopFrameLoop(alignment, scores, tokens, t - 1),
                      alignment, scores, tokens, t)

RECURSIVE Concat(_)
Concat(seqs) == IF seqs = <<>> THEN <<>> ELSE seqs[1] \o Concat(Tail(seqs))

GopWord(word, range, tokenFrameScores) ==
    LET wordScores == Concat(SubSeq(tokenFrameScores, range[1] + 1, range[2]))
        rawScore == IF Len(wordScores) > 0
                    THEN Sigmoid(SeqSum(wordScores), Len(wordScores))
                    ELSE Sigmoid(DEFAULT_LOGPROB, 1)
        phonemes == getPhonemes(word)
        phonemeScores == IF Len(phonemes) > 0
                         THEN distributeScoreToPhonemes(phonemes, wordScores)
                         ELSE <<PhonemeScoreOf(word, rawScore)>>
    IN  [word |-> word,
         phonemes |-> phonemeScores,
         score |-> RoundTimes100(rawScore)]

(* with the vocabulary loaded *)
computeGopScores(alignment, scores, tokens, expectedText) ==
    LET words == SelectSeq(Split(normalizeText(expectedText)), LAMBDA w : w # <<>>)
    IN  IF Len(words) = 0
        THEN [words |-> <<>>, overallScore |-> 0, transcript |-> expectedText]
        ELSE LET wordTokenRanges == getWordTokenRanges(tokens)
                 st == GopFrameLoop(alignment, scores, tokens, Len(alignment))
                 n == Min(Len(words), Len(wordTokenRanges))
                 wordResults == [wi \in 1..n |->
                                    GopWord(words[wi], wordTokenRanges[wi],
                                            st.tokenFrameScores)]
             IN  [words |-> wordResults,
                  overallScore |->
                      IF n > 0
                      THEN RoundMean(SeqSum([wi \in 1..n |-> wordResults[wi].score]), n)
                      ELSE 0,
                  transcript |-> expectedText]

----------------------------------------------------------------------------
(* Greedy CTC decode and the pipeline entry point processCtcOutput *)

(* The first index holding the frame's maximum *)
ArgMax(frame) ==
    CHOOSE i \in DOMAIN frame :
        /\ \A j \in DOMAIN frame : frame[j] <= frame[i]
        /\ \A j \in DOMAIN frame : frame[j] = frame[i] => i <= j

(* prevToken = maxIdx, after every frame, blank or not *)
NextPrevToken_keptOverBlank(maxIdx, prevToken) ==
    IF maxIdx = BLANK_IDX THEN prevToken ELSE maxIdx

NextPrevToken(maxIdx, prevToken) == maxIdx

RECURSIVE GreedyIds(_, _)
GreedyIds(logProbs, prevToken) ==
    IF logProbs = <<>> THEN <<>>
    ELSE LET maxIdx == ArgMax(logProbs[1])
         IN  (IF maxIdx # BLANK_IDX /\ maxIdx # prevToken THEN <<maxIdx>> ELSE <<>>)
             \o GreedyIds(Tail(logProbs), NextPrevToken(maxIdx, prevToken))

(* token.replace(WORD_PREFIX, " "): the first occurrence only *)
RECURSIVE ReplaceFirstPrefix(_)
ReplaceFirstPrefix(piece) ==
    IF piece = <<>> THEN <<>>
    ELSE IF piece[1] = WORD_PREFIX THEN <<" ">> \o Tail(piece)
    ELSE <<piece[1]>> \o ReplaceFirstPrefix(Tail(piece))

(* with the vocabulary loaded *)
greedyDecode(logProbs) ==
    LET decoded == GreedyIds(logProbs, -1)
    IN  Trim(Concat([i \in 1..Len(decoded) |->
                        ReplaceFirstPrefix(PieceOf(decoded[i]))]))

(* The frames are given as rows; a call that ends in an exception has      *)
(* threw = TRUE and no value                                               *)
processCtcOutput(logProbs, expectedText) ==
    LET decodedTranscript == greedyDecode(logProbs)
        tokens == tokenizeText(VocabOf(tokenMap), expectedText)
    IN  IF Len(tokens) = 0
        THEN [threw |-> FALSE,
              value |-> [words |-> <<>>, overallScore |-> 0,
                         transcript |-> expectedText,
                         decodedTranscript |-> decodedTranscript]]
        ELSE LET va == viterbiAlign(logProbs, tokens)
             IN  IF va.threw THEN [threw |-> TRUE]
                 ELSE [threw |-> FALSE,
                       value |-> Spread(computeGopScores(va.alignment, va.scores,
                                                         tokens, expectedText),
                                        [decodedTranscript |-> decodedTranscript])]

----------------------------------------------------------------------------
(* Specification of the pipeline: a frame matrix, an expected text, one call *)

GopFrameIds == {tokenMap[piece] : piece \in DOMAIN tokenMap}

(* Frames with one token (or the blank) standing out *)
GopFrames ==
    {[id \in GopFrameIds |-> IF id = hot THEN v ELSE -8] :
        hot \in GopFrameIds, v \in LogProbValues \cup {0}}

GopTexts == {<<>>, Str_the, Str_it, Str_zz,
             Str_the \o <<" ">> \o Str_the,
             <<"T", "h", "e", " ">> \o Str_it \o <<"!">>}

GopInputs ==
    /\ gLogProbs \in SeqsUpTo(GopFrames, MaxT)
    /\ gText \in GopTexts
    /\ gResult = None
    /\ gAdjusted = None

ProcessCtcOutput ==
    /\ ~gResult.done
    /\ gResult' = Spread(processCtcOutput(gLogProbs, gText), [done |-> TRUE])
    /\ UNCHANGED <<gText, gLogProbs, gAdjusted>>
    /\ UNCHANGED exceptGop

(* recognize: result = applyL1Scoring(result, l1) on what processCtcOutput *)
(* returned, with the tag the hook sends                                   *)
AdjustForL1 ==
    /\ gResult.done /\ ~gResult.threw
    /\ ~gAdjusted.done
    /\ gAdjusted' = [done |-> TRUE,
                     value |-> applyL1Scoring(gResult.value,
                                              <<"p", "t", "-", "B", "R">>)]
    /\ UNCHANGED <<gText, gLogProbs, gResult>>
    /\ UNCHANGED exceptGop

(* C10: in every result of computeGopScores, each word that has dictionary *)
(* phonemes has score round(100 x the mean of its phoneme scores), and     *)
(* overallScore is the rounded mean of the word scores (0 without words).  *)
C10_WordScoreIsPhonemeMean ==
    (gResult.done /\ ~gResult.threw) =>
        LET r == gResult.value
        IN  /\ \A w \in DOMAIN r.words :
                   getPhonemes(r.words[w].word) # <<>> =>
                       r.words[w].score =
                           RoundMeanTimes100(
                               SeqSum([i \in 1..Len(r.words[w].phonemes) |->
                                          r.words[w].phonemes[i].score]),
                               Len(r.words[w].phonemes))
            /\ r.overallScore =
                   IF Len(r.words) = 0 THEN 0
                   ELSE RoundMean(SeqSum([w \in 1..Len(r.words) |-> r.words[w].score]),
                                  Len(r.words))

(* The expected tokens of the call and their alignment *)
gTokens == tokenizeText(VocabOf(tokenMap), gText)
gAligned == viterbiAlign(gLogProbs, gTokens)

(* The scores of the frames at which the Viterbi path is in state s *)
ScoresAtState(va, s) ==
    LET at == SelectSeq([t \in 1..Len(va.path) |-> t], LAMBDA t : va.path[t] = s)
    IN  [k \in 1..Len(at) |-> va.scores[at[k]]]

(* The scores of the frames aligned to the tokens of range, in token order *)
ScoresOfRange(va, range) ==
    Concat([k \in 1..(range[2] - range[1]) |->
               ScoresAtState(va, 2 * (range[1] + k) - 1)])

(* C26: for an alignment produced by viterbiAlign over the expected tokens *)
(* computeGopScores attributes each non-blank frame's score to the token   *)
(* position the Viterbi path occupies at that frame, so each word is       *)
(* scored from exactly the frames aligned to its own tokens, also when a   *)
(* token id occurs more than once in the expected sequence.                *)
C26_FramesScoredAtPathPosition ==
    (/\ gResult.done /\ ~gResult.threw
     /\ gTokens # <<>>
     /\ IsValidPath(expandedTokens(gTokens), gAligned.path)) =>
        LET st == GopFrameLoop(gAligned.alignment, gAligned.scores, gTokens,
                               Len(gAligned.alignment))
            ranges == getWordTokenRanges(gTokens)
        IN  /\ \A k \in 1..Len(gTokens) :
                   st.tokenFrameScores[k] = ScoresAtState(gAligned, 2 * k - 1)
            /\ \A w \in DOMAIN gResult.value.words :
                   LET wordScores == ScoresOfRange(gAligned, ranges[w])
                   IN  gResult.value.words[w].score =
                           RoundTimes100(
                               IF Len(wordScores) > 0
                               THEN Sigmoid(SeqSum(wordScores), Len(wordScores))
                               ELSE Sigmoid(DEFAULT_LOGPROB, 1))

(* The same statement for expected sequences without a repeated token id *)
C26_DistinctTokensScoredAtPathPosition ==
    (/\ gResult.done /\ ~gResult.threw
     /\ gTokens # <<>>
     /\ \A i, j \in DOMAIN gTokens : gTokens[i] = gTokens[j] => i = j
     /\ IsValidPath(expandedTokens(gTokens), gAligned.path)) =>
        LET st == GopFrameLoop(gAligned.alignment, gAligned.scores, gTokens,
                               Len(gAligned.alignment))
        IN  \A k \in 1..Len(gTokens) :
                st.tokenFrameScores[k] = ScoresAtState(gAligned, 2 * k - 1)

(* No phoneme of the result was adjusted: none carries an originalScore *)
NoPhonemeAdjusted(result) ==
    \A w \in DOMAIN result.words :
        \A i \in DOMAIN result.words[w].phonemes :
            "originalScore" \notin DOMAIN result.words[w].phonemes[i]

(* C28: for pt-BR applyL1Scoring never lowers a score: each output phoneme *)
(* score is at least the input one, each output word score is at least the *)
(* word's input score, which is its originalScore, and overallScore is at  *)
(* least originalOverallScore, which is the input overallScore; when no    *)
(* phoneme is adjusted the word scores and overallScore equal the input's. *)
C28_L1ScoringNeverLowers ==
    gAdjusted.done =>
        LET given == gResult.value
            out == gAdjusted.value
        IN  /\ Len(out.words) = Len(given.words)
            /\ out.originalOverallScore = given.overallScore
            /\ out.overallScore >= out.originalOverallScore
            /\ \A w \in DOMAIN given.words :
                   /\ out.words[w].originalScore = given.words[w].score
                   /\ out.words[w].score >= given.words[w].score
                   /\ \A i \in DOMAIN given.words[w].phonemes :
                          out.words[w].phonemes[i].score >=
                              given.words[w].phonemes[i].score
            /\ NoPhonemeAdjusted(out) =>
                   /\ out.overallScore = given.overallScore
                   /\ \A w \in DOMAIN given.words :
                          out.words[w].score = given.words[w].score

(* The part of C28 about phoneme scores *)
C28_PhonemeScoresNeverLowered ==
    gAdjusted.done =>
        \A w \in DOMAIN gResult.value.words :
            \A i \in DOMAIN gResult.value.words[w].phonemes :
                gAdjusted.value.words[w].phonemes[i].score >=
                    gResult.value.words[w].phonemes[i].score

SpecGopInit ==
    /\ GopInputs
    /\ IdleExceptGop

SpecGopNext == ProcessCtcOutput \/ AdjustForL1

SpecGop == SpecGopInit /\ [][SpecGopNext]_vars

----------------------------------------------------------------------------
(* Specification of the greedy decoder: any frame matrix, one call *)

(* Ids of a frame: two ids with a piece, one id without, and the blank *)
DecodeIds == {1, 3, 5, BLANK_IDX}

DecodeFrames == [DecodeIds -> LogProbValues]

DecodeInputs ==
    /\ dLogProbs \in SeqsUpTo(DecodeFrames, MaxT)
    /\ dResult = None

GreedyDecode ==
    /\ ~dResult.done
    /\ dResult' = [done |-> TRUE, text |-> greedyDecode(dLogProbs)]
    /\ UNCHANGED dLogProbs
    /\ UNCHANGED exceptDecode

(* The per-frame arg-max sequence of the matrix *)
ArgMaxSeq(logProbs) == [t \in 1..Len(logProbs) |-> ArgMax(logProbs[t])]

(* A piece with its boundary marker removed *)
WithoutMarker(piece) ==
    IF piece # <<>> /\ piece[1] = WORD_PREFIX THEN Tail(piece) ELSE piece

(* The text of a sequence of ids: the pieces, each boundary marker a space, *)
(* without the outer spaces                                                *)
RECURSIVE PiecesText(_)
PiecesText(ids) ==
    IF ids = <<>> THEN <<>>
    ELSE LET piece == PieceOf(ids[1])
         IN  (IF piece # <<>> /\ piece[1] = WORD_PREFIX
              THEN <<" ">> \o Tail(piece) ELSE piece) \o PiecesText(Tail(ids))

(* C11: with a vocabulary loaded, greedyDecode is the text of the CTC      *)
(* collapse of the per-frame arg-max sequence (a token is emitted exactly  *)
(* when the arg-max is not the blank and differs from the previous frame's *)
(* arg-max); an all-blank input decodes to the empty string and a constant *)
(* non-blank token to its single piece without the boundary marker.        *)
C11_GreedyDecodeIsCtcCollapse ==
    dResult.done =>
        LET am == ArgMaxSeq(dLogProbs)
        IN  /\ dResult.text = Trim(PiecesText(CtcCollapse(am)))
            /\ (\A t \in DOMAIN am : am[t] = BLANK_IDX) => dResult.text = <<>>
            /\ \A k \in DecodeIds \ {BLANK_IDX} :
                   (am # <<>> /\ \A t \in DOMAIN am : am[t] = k) =>
                       dResult.text = WithoutMarker(PieceOf(k))

(* The same token on both sides of a blank frame: it is emitted twice *)
C11_Witness ==
    /\ dResult.done
    /\ ArgMaxSeq(dLogProbs) = <<1, BLANK_IDX, 1>>
    /\ dResult.text = Str_the \o <<" ">> \o Str_the

SpecDecodeInit ==
    /\ DecodeInputs
    /\ IdleExceptDecode

SpecDecodeNext == GreedyDecode

SpecDecode == SpecDecodeInit /\ [][SpecDecodeNext]_vars

----------------------------------------------------------------------------
(* Specification of the tokenizer: no vocabulary or one of several, any    *)
(* text, one call                                                          *)

(* The tokenMap that loadTokens builds from lines "piece id" *)
MapOf(lines) ==
    [piece \in {line[1] : line \in lines} |->
        (CHOOSE line \in lines : line[1] = piece)[2]]

RECURSIVE Repeat(_, _)
Repeat(ch, n) == IF n = 0 THEN <<>> ELSE <<ch>> \o Repeat(ch, n - 1)

(* A piece one longer than the longest length tried, and one just as long *)
OverlongPiece == <<WORD_PREFIX>> \o Repeat("a", MAX_PIECE_LEN)
LongestPiece == <<WORD_PREFIX>> \o Repeat("a", MAX_PIECE_LEN - 1)

Vocabularies ==
    { tokenMap,
      MapOf({}),
      MapOf({<< <<"<", "u", "n", "k", ">">>, 0 >>, << <<WORD_PREFIX>>, 10 >>,
             << <<WORD_PREFIX, "a">>, 4 >>, << <<WORD_PREFIX, "a", "b">>, 5 >>,
             << <<"a">>, 21 >>, << <<"b">>, 6 >>, << <<"b", "a">>, 7 >>}),
      MapOf({<< <<WORD_PREFIX, "a">>, 4 >>, << <<"b", "b">>, 6 >>}),
      MapOf({<< OverlongPiece, 8 >>, << LongestPiece, 9 >>, << <<"a">>, 21 >>}) }

TokenizeChars == {"a", "b", " "}

TokenizeTexts ==
    SeqsUpTo(TokenizeChars, MaxTokText)
    \cup {Repeat("a", MAX_PIECE_LEN), <<"T", "h", "e", " ">> \o Str_it \o <<"!">>}

TokenizeInputs ==
    /\ tkVocab \in {NoVocab} \cup {VocabOf(map) : map \in Vocabularies}
    /\ tkText \in TokenizeTexts
    /\ tkResult = None

TokenizeText ==
    /\ ~tkResult.done
    /\ tkResult' = [done |-> TRUE, ids |-> tokenizeText(tkVocab, tkText)]
    /\ UNCHANGED <<tkVocab, tkText>>
    /\ UNCHANGED exceptTokenize

(* The length of the longest piece of at most 20 characters that starts at *)
(* position p of the word, 0 when there is none                            *)
LongestPieceAt(map, word, p) ==
    LET fits == {len \in 1..MAX_PIECE_LEN :
                    /\ p + len - 1 <= Len(word)
                    /\ SubSeq(word, p, p + len - 1) \in DOMAIN map}
    IN  IF fits = {} THEN 0 ELSE SetMax(fits)

(* ids is the greedy scan of the word: a sequence of steps, each of one    *)
(* piece or one unmatched character, that covers the word from left to     *)
(* right without gap or overlap                                            *)
RECURSIVE IsGreedyScan(_, _, _, _)
IsGreedyScan(map, word, p, ids) ==
    IF p > Len(word) THEN ids = <<>>
    ELSE LET len == LongestPieceAt(map, word, p)
         IN  /\ ids # <<>>
             /\ IF len = 0
                THEN ids[1] = UNK_IDX /\ IsGreedyScan(map, word, p + 1, Tail(ids))
                ELSE /\ ids[1] = map[SubSeq(word, p, p + len - 1)]
                     /\ IsGreedyScan(map, word, p + len, Tail(ids))

(* Ways of cutting ids into one part per word, each part a greedy scan *)
RECURSIVE IsScanOfWords(_, _, _)
IsScanOfWords(map, words, ids) ==
    IF words = <<>> THEN ids = <<>>
    ELSE \E n \in 0..Len(ids) :
            /\ IsGreedyScan(map, <<WORD_PREFIX>> \o words[1], 1, SubSeq(ids, 1, n))
            /\ IsScanOfWords(map, Tail(words), SubSeq(ids, n + 1, Len(ids)))

tkWords == SelectSeq(Split(normalizeText(tkText)), LAMBDA w : w # <<>>)

(* C12: with no vocabulary loaded tokenizeText returns the empty list; once *)
(* loaded, the ids are, word by word of the normalized text, the greedy    *)
(* longest-match scan of the marker-prefixed word (pieces of at most 20    *)
(* characters, UNK id 0 for one unmatched character), every character      *)
(* consumed exactly once.                                                  *)
C12_TokenizeGreedyLongestMatch ==
    tkResult.done =>
        IF ~tkVocab.loaded THEN tkResult.ids = <<>>
        ELSE IsScanOfWords(tkVocab.map, tkWords, tkResult.ids)

(* A longer piece wins over a shorter one at the same position, and an     *)
(* unmatched character gives UNK                                           *)
C12_Witness ==
    /\ tkResult.done
    /\ tkVocab.loaded
    /\ tkText = <<"a", "b", "b">>
    /\ tkResult.ids = <<5, 6>>

SpecTokenizeInit ==
    /\ TokenizeInputs
    /\ IdleExceptTokenize

SpecTokenizeNext == TokenizeText

SpecTokenize == SpecTokenizeInit /\ [][SpecTokenizeNext]_vars

----------------------------------------------------------------------------
(* Specification of the normalizer: any text, one call *)

(* An upper-case and a lower-case letter, a digit, the underscore, the     *)
(* apostrophe, the hyphen, a punctuation mark and two kinds of whitespace  *)
NormalizeChars == {"B", "a", "3", "_", "'", "-", ".", " ", "\t"}

NormalizeInputs ==
    /\ nText \in SeqsUpTo(NormalizeChars, MaxNormText)
    /\ nResult = None

NormalizeText ==
    /\ ~nResult.done
    /\ nResult' = [done |-> TRUE, value |-> normalizeText(nText)]
    /\ UNCHANGED nText
    /\ UNCHANGED exceptNormalize

(* C13: normalizeText is idempotent, and its output holds only lower-case  *)
(* word characters, apostrophes and single interior spaces, with no        *)
(* leading or trailing space.                                              *)
C13_NormalizeIdempotent ==
    nResult.done =>
        LET out == nResult.value
        IN  /\ normalizeText(out) = out
            /\ \A i \in DOMAIN out :
                   out[i] \in Range(LowerCase) \cup Digits \cup {"_", "'", " "}
            /\ \A i \in 1..(Len(out) - 1) : ~(out[i] = " " /\ out[i + 1] = " ")
            /\ out # <<>> => out[1] # " " /\ out[Len(out)] # " "

(* A text that every step changes *)
C13_Witness ==
    /\ nResult.done
    /\ nText = <<"B", ".", "\t", "-">>
    /\ nResult.value = <<"b">>

SpecNormalizeInit ==
    /\ NormalizeInputs
    /\ IdleExceptNormalize

SpecNormalizeNext == NormalizeText

SpecNormalize == SpecNormalizeInit /\ [][SpecNormalizeNext]_vars

----------------------------------------------------------------------------
(* The worker: onmessage, initModel, recognize.  Each message starts an    *)
(* invocation of the asynchronous handler; it runs to its first await, and *)
(* a suspended invocation resumes when the promise it awaits settles, in   *)
(* any order with respect to the others.                                   *)

(* loadTokens(tokensText): the tokenizer's state after the call; the call  *)
(* is synchronous, so no other handler runs between its first and its last *)
(* statement                                                               *)
loadTokens_skipped(vocab) == vocab

loadTokens(vocab) == VocabOf(tokenMap)

ErrorOf(prefix, message) == [prefix |-> prefix, message |-> message]

(* post(msg), from invocation h *)
Post(posted, h, msg) == Append(posted, Spread(msg, [from |-> h]))

PostAll(posted, h, msgs) ==
    posted \o [i \in 1..Len(msgs) |-> Spread(msgs[i], [from |-> h])]

Progress(p) == [type |-> "progress", progress |-> p]

Finished(h) == [wHandlers EXCEPT ![h].pc = "done"]

(* case "init": if (modelUrl) await initModel(modelUrl), up to await fetch *)
ReceiveInit ==
    /\ Len(wHandlers) < MaxMessages
    /\ \E hasUrl \in BOOLEAN :
           wHandlers' = Append(wHandlers,
               [type |-> "init", wellFormed |-> hasUrl, sawSession |-> session # 0,
                pc |-> IF hasUrl THEN "fetch" ELSE "done",
                runs |-> 0, cause |-> "", stages |-> {}])
    /\ UNCHANGED <<session, wVocab, wPosted>>
    /\ UNCHANGED exceptWorker

(* await fetch(tokensUrl) settles *)
FetchSettles ==
    /\ \E h \in DOMAIN wHandlers :
        /\ wHandlers[h].pc = "fetch"
        /\ \/ /\ wHandlers' = [wHandlers EXCEPT ![h].pc = "text"]
              /\ UNCHANGED wPosted
           \/ /\ wHandlers' = Finished(h)
              /\ wPosted' = Post(wPosted, h,
                     [type |-> "error",
                      error |-> ErrorOf("Failed to load model: ", "fetch")])
    /\ UNCHANGED <<session, wVocab>>
    /\ UNCHANGED exceptWorker

(* await tokensResponse.text() settles; then loadTokens, then the call of  *)
(* InferenceSession.create                                                 *)
TextSettles ==
    /\ \E h \in DOMAIN wHandlers :
        /\ wHandlers[h].pc = "text"
        /\ \/ /\ wVocab' = loadTokens(wVocab)
              /\ wHandlers' = [wHandlers EXCEPT ![h].pc = "create"]
              /\ UNCHANGED wPosted
           \/ /\ wHandlers' = Finished(h)
              /\ wPosted' = Post(wPosted, h,
                     [type |-> "error",
                      error |-> ErrorOf("Failed to load model: ", "text")])
              /\ UNCHANGED wVocab
    /\ UNCHANGED session
    /\ UNCHANGED exceptWorker

(* await ort.InferenceSession.create settles *)
CreateSettles ==
    /\ \E h \in DOMAIN wHandlers :
        /\ wHandlers[h].pc = "create"
        /\ wHandlers' = Finished(h)
        /\ \/ /\ session' = h
              /\ wPosted' = Post(wPosted, h, [type |-> "ready"])
           \/ /\ wPosted' = Post(wPosted, h,
                     [type |-> "error",
                      error |-> ErrorOf("Failed to load model: ", "create")])
              /\ UNCHANGED session
    /\ UNCHANGED wVocab
    /\ UNCHANGED exceptWorker

(* case "recognize": if (audioData && expectedText) await recognize(...),  *)
(* up to await session.run                                                 *)
ReceiveRecognize ==
    /\ Len(wHandlers) < MaxMessages
    /\ \E hasAudio \in BOOLEAN, hasText \in BOOLEAN :
        LET h == Len(wHandlers) + 1
            handler == [type |-> "recognize", wellFormed |-> hasAudio /\ hasText,
                        sawSession |-> session # 0, pc |-> "done",
                        runs |-> 0, cause |-> "", stages |-> {}]
        IN  IF ~(hasAudio /\ hasText)
            THEN /\ wHandlers' = Append(wHandlers, handler)
                 /\ UNCHANGED wPosted
            ELSE IF session = 0
            THEN /\ wHandlers' = Append(wHandlers, handler)
                 /\ wPosted' = Post(wPosted, h,
                        [type |-> "error", error |-> ErrorOf("Model not loaded", "")])
            ELSE /\ wHandlers' = Append(wHandlers,
                        [handler EXCEPT !.pc = "run", !.runs = 1, !.stages = {"mel"}])
                 /\ wPosted' = PostAll(wPosted, h, <<Progress(3), Progress(5)>>)
    /\ UNCHANGED <<session, wVocab>>
    /\ UNCHANGED exceptWorker

(* await session.run(feeds) settles: rejected, or resolved and then        *)
(* processCtcOutput throws or returns                                      *)
RunSettles ==
    /\ \E h \in DOMAIN wHandlers :
        /\ wHandlers[h].pc = "run"
        /\ \/ /\ wHandlers' = [wHandlers EXCEPT ![h].pc = "done",
                                                ![h].cause = "inference",
                                                ![h].stages = @ \cup {"inference"}]
              /\ wPosted' = Post(wPosted, h,
                     [type |-> "error",
                      error |-> ErrorOf("Recognition failed: ", "inference")])
           \/ /\ wHandlers' = [wHandlers EXCEPT ![h].pc = "done",
                                                ![h].cause = "processCtcOutput",
                                                ![h].stages = @ \cup
                                                    {"inference",
                                                     IF wVocab.loaded THEN "decode"
                                                     ELSE "decodeWithoutVocabulary"}]
              /\ wPosted' = PostAll(wPosted, h,
                     <<Progress(8),
                       [type |-> "error",
                        error |-> ErrorOf("Recognition failed: ", "processCtcOutput")]>>)
           \/ /\ wHandlers' = [wHandlers EXCEPT ![h].pc = "done",
                                                ![h].stages = @ \cup
                                                    {"inference",
                                                     IF wVocab.loaded THEN "decode"
                                                     ELSE "decodeWithoutVocabulary"}]
              /\ wPosted' = PostAll(wPosted, h,
                     <<Progress(8), [type |-> "result"]>>)
    /\ UNCHANGED <<session, wVocab>>
    /\ UNCHANGED exceptWorker

(* The responses of one type posted by invocation h *)
PostedBy(h, type) == SelectSeq(wPosted, LAMBDA m : m.from = h /\ m.type = type)

Recognizes == {h \in DOMAIN wHandlers : wHandlers[h].type = "recognize"}

(* Inference or a later stage has failed in invocation h *)
FailedInPipeline(h) == wHandlers[h].cause # ""

(* The parts of C14 about a failure in the pipeline *)
FailureSurfacedOnce ==
    \A h \in Recognizes :
        /\ wHandlers[h].runs <= 1
        /\ FailedInPipeline(h) =>
               /\ Len(PostedBy(h, "error")) = 1
               /\ PostedBy(h, "error")[1].error =
                      ErrorOf("Recognition failed: ", wHandlers[h].cause)
               /\ Len(PostedBy(h, "result")) = 0
               /\ \A later \in Recognizes :
                      (later > h /\ wHandlers[later].wellFormed) =>
                          wHandlers[later].runs = 1

(* The part of C14 about a request received while session is null *)
RefusedWithoutSession(h) ==
    /\ Len(PostedBy(h, "error")) = 1
    /\ PostedBy(h, "error")[1].error = ErrorOf("Model not loaded", "")
    /\ Len(PostedBy(h, "result")) = 0
    /\ wHandlers[h].stages = {}

(* C14: a recognize request in which inference or a later stage fails gets *)
(* exactly one error response carrying the underlying message and no       *)
(* result, it is not run again, and later requests are still served; a     *)
(* recognize request received while no session exists gets the error       *)
(* response "Model not loaded" and runs no pipeline stage.                 *)
C14_RecognizeFailureSurfaced ==
    /\ FailureSurfacedOnce
    /\ \A h \in Recognizes : ~wHandlers[h].sawSession => RefusedWithoutSession(h)

(* C15: under every interleaving of init and recognize messages, whenever  *)
(* a recognize request reaches tokenization, alignment or decoding the     *)
(* vocabulary has been loaded: no session exists, and no request is past   *)
(* the session check, while the token maps are absent.                     *)
C15_VocabularyLoadedBeforeUse ==
    /\ session # 0 => wVocab.loaded
    /\ \A h \in Recognizes :
           /\ wHandlers[h].pc = "run" => wVocab.loaded
           /\ "decodeWithoutVocabulary" \notin wHandlers[h].stages

(* A request decoded while a later init is between its awaits *)
C15_Witness ==
    \E h \in Recognizes, i \in DOMAIN wHandlers :
        /\ "decode" \in wHandlers[h].stages
        /\ wHandlers[i].type = "init"
        /\ i > h
        /\ wHandlers[i].pc \in {"text", "create"}

SpecWorkerInit ==
    /\ session = 0
    /\ wVocab = NoVocab
    /\ wHandlers = <<>>
    /\ wPosted = <<>>
    /\ IdleExceptWorker

SpecWorkerNext ==
    \/ ReceiveInit
    \/ FetchSettles
    \/ TextSettles
    \/ CreateSettles
    \/ ReceiveRecognize
    \/ RunSettles

SpecWorker == SpecWorkerInit /\ [][SpecWorkerNext]_vars

(* The terminal responses, result or error, posted by invocation h *)
TerminalResponses(h) ==
    SelectSeq(wPosted, LAMBDA m : m.from = h /\ m.type \in {"result", "error"})

(* C22: every recognize request delivered to the worker eventually gets    *)
(* exactly one terminal response, result or error, whatever its payload    *)
(* fields hold (an empty expected text, an absent audio array): it never   *)
(* has more than one, and no request stays without a response: a request   *)
(* whose handler has returned has its response.                            *)
C22_EveryRecognizeAnswered ==
    \A h \in 1..MaxMessages :
        /\ [](h \in Recognizes => Len(TerminalResponses(h)) <= 1)
        /\ [](h \in Recognizes => <>(Len(TerminalResponses(h)) = 1))
        /\ []((h \in Recognizes /\ wHandlers[h].pc = "done") =>
                 Len(TerminalResponses(h)) = 1)

(* The same statement for the requests that carry audio and a text *)
C22_WellFormedRecognizeAnswered ==
    \A h \in 1..MaxMessages :
        /\ [](h \in Recognizes => Len(TerminalResponses(h)) <= 1)
        /\ []((h \in Recognizes /\ wHandlers[h].wellFormed) =>
                 <>(Len(TerminalResponses(h)) = 1))

(* Every awaited promise of the worker settles *)
SpecWorkerFair ==
    /\ SpecWorker
    /\ WF_vars(FetchSettles) /\ WF_vars(TextSettles)
    /\ WF_vars(CreateSettles) /\ WF_vars(RunSettles)

----------------------------------------------------------------------------
(* The ONNX recognition hook: start, stop, reset, startRecording, the      *)
(* worker's responses and the audio callback.  Every callback runs to      *)
(* completion; getUserMedia, the checkReady interval, the audio callback   *)
(* and the worker's responses happen between the calls, in any order.      *)

HookTexts == {"a", "b"}

NO_SPEECH == "No speech detected. Please try again."

LogOf(op) == SelectSeq(hLog, LAMBDA e : e.op = op)

Calls == Len(SelectSeq(hLog, LAMBDA e : e.op \in {"start", "stop", "reset"}))

(* initWorker: the worker is created once and sent the init message *)
initWorker(sent) == IF hWorkerRef THEN sent ELSE Append(sent, [type |-> "init"])

(* startRecording, up to the call of getUserMedia; n is the start call     *)
(* that asked for it                                                       *)
startRecording(n) == Append(hRecordings, [start |-> n, status |-> "pending"])

(* stopRecording: what the refs hold is disconnected, closed and stopped *)
stopRecording ==
    IF hProcessorRef = 0 THEN hRecordings
    ELSE [hRecordings EXCEPT ![hProcessorRef].status = "off"]

(* chunks.length === 0 *)
NoSpeech_never(chunks) == FALSE

NoSpeech(chunks) == Len(chunks) = 0

(* The Float32Array that stop fills chunk by chunk *)
audioDataOf(chunks) == Concat([i \in 1..Len(chunks) |-> chunks[i].data])

Start ==
    /\ Calls < MaxCalls
    /\ \E expectedText \in HookTexts :
        LET n == Len(LogOf("start")) + 1
        IN  IF ~hCompatible
            THEN /\ hErrorMessage' = "Your browser does not support WebAssembly."
                 /\ hState' = "error"
                 /\ UNCHANGED <<hResult, hWorkerRef, hChunksRef, hExpectedTextRef,
                                hRecordings, hIntervals, hToWorker>>
                 /\ hLog' = Append(hLog, [op |-> "start", n |-> n, text |-> expectedText,
                                          result |-> hResult,
                                          errorMessage |-> hErrorMessage',
                                          buffer |-> hChunksRef])
            ELSE /\ hWorkerRef' = TRUE
                 /\ hToWorker' = initWorker(hToWorker)
                 /\ hExpectedTextRef' = expectedText
                 /\ hChunksRef' = <<>>
                 /\ hResult' = 0
                 /\ hErrorMessage' = ""
                 /\ IF ~hModelReadyRef
                    THEN /\ hState' = "loading"
                         /\ hIntervals' = hIntervals \cup {n}
                         /\ UNCHANGED hRecordings
                    ELSE /\ hState' = "listening"
                         /\ hRecordings' = startRecording(n)
                         /\ UNCHANGED hIntervals
                 /\ hLog' = Append(hLog, [op |-> "start", n |-> n, text |-> expectedText,
                                          result |-> hResult',
                                          errorMessage |-> hErrorMessage',
                                          buffer |-> hChunksRef'])
    /\ UNCHANGED <<hCompatible, hModelReadyRef, hProcessorRef, hAnswered>>
    /\ UNCHANGED exceptHook

(* A tick of a checkReady interval once the model is ready *)
CheckReady ==
    /\ hModelReadyRef
    /\ \E n \in hIntervals :
        /\ hIntervals' = hIntervals \ {n}
        /\ hState' = "listening"
        /\ hRecordings' = startRecording(n)
    /\ UNCHANGED <<hCompatible, hResult, hErrorMessage, hWorkerRef, hModelReadyRef,
                   hChunksRef, hExpectedTextRef, hProcessorRef, hToWorker,
                   hAnswered, hLog>>
    /\ UNCHANGED exceptHook

(* getUserMedia settles: the refs take the new stream, context and         *)
(* processor, or the error is shown                                        *)
GetUserMediaSettles ==
    /\ \E r \in DOMAIN hRecordings :
        /\ hRecordings[r].status = "pending"
        /\ \/ /\ hRecordings' = [hRecordings EXCEPT ![r].status = "active"]
              /\ hProcessorRef' = r
              /\ UNCHANGED <<hState, hErrorMessage>>
           \/ /\ hRecordings' = [hRecordings EXCEPT ![r].status = "failed"]
              /\ hErrorMessage' = "Failed to access microphone."
              /\ hState' = "error"
              /\ UNCHANGED hProcessorRef
    /\ UNCHANGED <<hCompatible, hResult, hWorkerRef, hModelReadyRef, hChunksRef,
                   hExpectedTextRef, hIntervals, hToWorker, hAnswered, hLog>>
    /\ UNCHANGED exceptHook

(* processor.onaudioprocess of a connected processor: the k-th chunk       *)
(* captured holds k samples                                                *)
AudioProcess ==
    /\ Len(LogOf("chunk")) < MaxChunks
    /\ \E r \in DOMAIN hRecordings :
        /\ hRecordings[r].status = "active"
        /\ LET k == Len(LogOf("chunk")) + 1
               chunk == [rec |-> r, start |-> hRecordings[r].start,
                         data |-> [i \in 1..k |-> <<k, i>>]]
           IN  /\ hChunksRef' = Append(hChunksRef, chunk)
               /\ hLog' = Append(hLog, [op |-> "chunk", chunk |-> chunk])
    /\ UNCHANGED <<hCompatible, hState, hResult, hErrorMessage, hWorkerRef,
                   hModelReadyRef, hExpectedTextRef, hRecordings, hProcessorRef,
                   hIntervals, hToWorker, hAnswered>>
    /\ UNCHANGED exceptHook

Stop ==
    /\ Calls < MaxCalls
    /\ hRecordings' = stopRecording
    /\ hProcessorRef' = 0
    /\ IF NoSpeech(hChunksRef)
       THEN /\ hErrorMessage' = NO_SPEECH
            /\ hState' = "error"
            /\ UNCHANGED hToWorker
       ELSE /\ hState' = "processing"
            /\ hToWorker' =
                   IF hWorkerRef
                   THEN Append(hToWorker, [type |-> "recognize",
                                           audioData |-> audioDataOf(hChunksRef),
                                           expectedText |-> hExpectedTextRef,
                                           l1 |-> "pt-BR"])
                   ELSE hToWorker
            /\ UNCHANGED hErrorMessage
    /\ hLog' = Append(hLog, [op |-> "stop", buffer |-> hChunksRef,
                             state |-> hState', errorMessage |-> hErrorMessage',
                             posted |-> SubSeq(hToWorker', Len(hToWorker) + 1,
                                               Len(hToWorker'))])
    /\ UNCHANGED <<hCompatible, hResult, hWorkerRef, hModelReadyRef, hChunksRef,
                   hExpectedTextRef, hIntervals, hAnswered>>
    /\ UNCHANGED exceptHook

Reset ==
    /\ Calls < MaxCalls
    /\ hRecordings' = stopRecording
    /\ hProcessorRef' = 0
    /\ hResult' = 0
    /\ hErrorMessage' = ""
    /\ hState' = "idle"
    /\ hChunksRef' = <<>>
    /\ hLog' = Append(hLog, [op |-> "reset"])
    /\ UNCHANGED <<hCompatible, hWorkerRef, hModelReadyRef, hExpectedTextRef,
                   hIntervals, hToWorker, hAnswered>>
    /\ UNCHANGED exceptHook

(* worker.onmessage: the worker answers the oldest unanswered message *)
WorkerResponds ==
    /\ hAnswered < Len(hToWorker)
    /\ hAnswered' = hAnswered + 1
    /\ LET msg == hToWorker[hAnswered + 1]
       IN  \/ /\ msg.type = "init"
              /\ hModelReadyRef' = TRUE
              /\ hState' = IF hState = "loading" THEN "idle" ELSE hState
              /\ UNCHANGED <<hResult, hErrorMessage>>
           \/ /\ msg.type = "recognize"
              /\ hResult' = hAnswered + 1
              /\ hState' = "done"
              /\ UNCHANGED <<hModelReadyRef, hErrorMessage>>
           \/ /\ hErrorMessage' = IF msg.type = "init" THEN "Failed to load model: "
                                  ELSE "Recognition failed: "
              /\ hState' = "error"
              /\ UNCHANGED <<hModelReadyRef, hResult>>
    /\ UNCHANGED <<hCompatible, hWorkerRef, hChunksRef, hExpectedTextRef,
                   hRecordings, hProcessorRef, hIntervals, hToWorker, hLog>>
    /\ UNCHANGED exceptHook

(* Positions of the log *)
LogAt(op) == {i \in DOMAIN hLog : hLog[i].op = op}

(* The last position before i that holds one of the ops, 0 when none *)
LastBefore(i, ops) ==
    LET earlier == {j \in 1..(i - 1) : hLog[j].op \in ops}
    IN  IF earlier = {} THEN 0 ELSE SetMax(earlier)

(* The chunks captured after position from and before position to *)
ChunksBetween(from, to) ==
    LET at == SelectSeq([j \in 1..(to - from - 1) |-> from + j],
                        LAMBDA j : hLog[j].op = "chunk")
    IN  [k \in 1..Len(at) |-> hLog[at[k]].chunk]

(* C16: after start(text) in a compatible environment, from any state,     *)
(* result is null, errorMessage is empty and the buffer is empty, and the  *)
(* audio later sent for recognition holds only chunks captured by the      *)
(* recording that this start began.                                        *)
C16_StartResetsTransientState ==
    hCompatible =>
        /\ \A i \in LogAt("start") :
               /\ hLog[i].result = 0
               /\ hLog[i].errorMessage = ""
               /\ hLog[i].buffer = <<>>
        /\ \A i \in LogAt("stop") :
               hLog[i].posted # <<>> =>
                   LET begun == LastBefore(i, {"start"})
                   IN  \A k \in DOMAIN hLog[i].buffer :
                           hLog[i].buffer[k].start = hLog[begun].n

C18_BufferReadOnlyByStop ==
    /\ Len(SelectSeq(hToWorker, LAMBDA m : m.type = "recognize")) =
           SeqSum([k \in 1..Len(LogOf("stop")) |-> Len(LogOf("stop")[k].posted)])
    /\ \A i \in LogAt("stop") :
           hLog[i].posted # <<>> =>
               LET msg == hLog[i].posted[1]
                   chunks == ChunksBetween(LastBefore(i, {"start", "reset"}), i)
               IN  /\ msg.audioData =
                          Concat([k \in 1..Len(chunks) |-> chunks[k].data])
                   /\ Len(msg.audioData) =
                          SeqSum([k \in 1..Len(chunks) |-> Len(chunks[k].data)])
                   /\ msg.expectedText = hLog[LastBefore(i, {"start"})].text
    /\ \A i \in LogAt("chunk") :
           LastBefore(i, {"start", "stop"}) # 0 =>
               hLog[LastBefore(i, {"start", "stop"})].op = "start"

(* The last call of start, stop or reset: its position in the log, or 0 *)
LastCall == LastBefore(Len(hLog) + 1, {"start", "stop", "reset"})

(* C23: after reset() has returned, state stays idle and result stays null *)
(* until the next start(), whatever pending event of the earlier attempt   *)
(* arrives: a tick of the readiness poll, the worker's ready message, the  *)
(* settling of getUserMedia, a late result or error of the worker.         *)
C23_ResetStaysIdle ==
    (LastCall # 0 /\ hLog[LastCall].op = "reset") =>
        (hState = "idle" /\ hResult = 0)

(* The worker has answered the init request with an error: the request is  *)
(* the first message sent, and readiness was never reported                *)
InitFailed == hAnswered >= 1 /\ ~hModelReadyRef

(* C24: after the worker has answered the init request with an error, a    *)
(* later start() does not stay in state loading forever: it eventually     *)
(* reaches listening or error.                                             *)
C24_LoadingEndsAfterInitError ==
    (InitFailed /\ hState = "loading") ~> (hState \in {"listening", "error"})

(* The recordings whose stream, context and processor are live *)
LiveRecordings == {r \in DOMAIN hRecordings : hRecordings[r].status = "active"}

(* C25: at most one un-stopped microphone stream exists at any time, and   *)
(* once stop() or reset() has run no stream acquired by an earlier         *)
(* startRecording is left un-stopped, also when the getUserMedia promise   *)
(* resolves after that call or start() was called twice in a row.          *)
C25_OneStreamAndStoppedAfterStop ==
    /\ Cardinality(LiveRecordings) <= 1
    /\ (LastCall # 0 /\ hLog[LastCall].op \in {"stop", "reset"}) =>
           LiveRecordings = {}

SpecHookInit ==
    /\ hCompatible \in BOOLEAN
    /\ hState = "idle" /\ hResult = 0 /\ hErrorMessage = ""
    /\ hWorkerRef = FALSE /\ hModelReadyRef = FALSE
    /\ hChunksRef = <<>> /\ hExpectedTextRef = ""
    /\ hRecordings = <<>> /\ hProcessorRef = 0 /\ hIntervals = {}
    /\ hToWorker = <<>> /\ hAnswered = 0 /\ hLog = <<>>
    /\ IdleExceptHook

SpecHookNext ==
    \/ Start
    \/ CheckReady
    \/ GetUserMediaSettles
    \/ AudioProcess
    \/ Stop
    \/ Reset
    \/ WorkerResponds

SpecHook == SpecHookInit /\ [][SpecHookNext]_vars

(* Timers fire, promises settle and messages are delivered *)
SpecHookFair ==
    /\ SpecHook
    /\ WF_vars(CheckReady)
    /\ WF_vars(GetUserMediaSettles)
    /\ WF_vars(WorkerResponds)

----------------------------------------------------------------------------
(* Import of a backup file: deserializeStudies, readStudiesFile and the
   handlers of DataActions, with the storage hook's replace callback.

   A JSON value is modelled by what the code asks of it: its type and
   whether it is truthy.  A field of a study is one of
     "absent" (undefined), "zero", "three" (numbers), "empty" (the string ""),
     "stamp" (a YYYYMMDDHHmmss string), "object" (an object).               *)
MaxImport == 1     \* the longest list of studies in a well-formed backup
MaxReads == 1      \* the most files whose read is pending at one time

TypeOf(v) ==
    CASE v = "absent" -> "undefined"
      [] v \in {"zero", "three"} -> "number"
      [] v \in {"empty", "stamp"} -> "string"
      [] OTHER -> "object"

Truthy(v) == v \in {"three", "stamp", "object"}

(* dayjs(review, "YYYYMMDDHHmmss").toDate() *)
toDate(review) == IF review = "stamp" THEN "date" ELSE "invalid date"

GoodItem(step) ==
    [isNull |-> FALSE, step |-> step, incorrect |-> "zero",
     entry |-> "object", review |-> "stamp"]

NullItem ==
    [isNull |-> TRUE, step |-> "absent", incorrect |-> "absent",
     entry |-> "absent", review |-> "absent"]

BadItems ==
    { [GoodItem("zero") EXCEPT !.step = "stamp"],
      [GoodItem("zero") EXCEPT !.incorrect = "absent"],
      [GoodItem("zero") EXCEPT !.entry = "empty"],
      [GoodItem("zero") EXCEPT !.review = "absent"],
      NullItem }

(* A file: text that JSON.parse refuses, or a JSON value data *)
Unparsable ==
    [text |-> "unparsable", data |-> "null", version |-> "absent",
     studies |-> "absent", items |-> <<>>]

JsonFile(data, version, studies, items) ==
    [text |-> "json", data |-> data, version |-> version,
     studies |-> studies, items |-> items]

GoodLists == SeqsUpTo({GoodItem("zero"), GoodItem("three")}, MaxImport)

BackupFiles ==
    {Unparsable,
     JsonFile("null", "absent", "absent", <<>>),
     JsonFile("number", "absent", "absent", <<>>),
     JsonFile("object", "absent", "array", <<>>),
     JsonFile("object", "two", "array", <<>>),
     JsonFile("object", "textOne", "array", <<>>),
     JsonFile("object", "one", "absent", <<>>),
     JsonFile("object", "one", "text", <<>>)}
    \cup {JsonFile("object", "one", "array", l) : l \in GoodLists}
    \cup {JsonFile("object", "one", "array", prefix \o <<bad>>) :
              prefix \in {<<>>, <<GoodItem("zero")>>}, bad \in BadItems}

(* data.version !== 1 is a strict comparison: only the number 1 passes *)
VersionIsOne_looseEquality(version) == version \in {"one", "textOne"}

VersionIsOne(version) == version = "one"

Rejected(error) == [ok |-> FALSE, error |-> error, studies |-> <<>>]

(* The callback of data.studies.map: the study, or the error thrown *)
StudyOf(s) ==
    IF s.isNull
    THEN Rejected("TypeError")
    ELSE IF \/ TypeOf(s.step) # "number"
            \/ TypeOf(s.incorrect) # "number"
            \/ ~Truthy(s.entry)
            \/ ~Truthy(s.review)
    THEN Rejected("Invalid study data")
    ELSE [ok |-> TRUE, error |-> "",
          studies |-> <<[step |-> s.step, review |-> toDate(s.review),
                         incorrect |-> s.incorrect, entry |-> s.entry]>>]

RECURSIVE MapStudies(_)
MapStudies(items) ==
    IF items = <<>>
    THEN [ok |-> TRUE, error |-> "", studies |-> <<>>]
    ELSE LET first == StudyOf(Head(items))
         IN  IF ~first.ok
             THEN first
             ELSE LET rest == MapStudies(Tail(items))
                  IN  IF ~rest.ok
                      THEN rest
                      ELSE [rest EXCEPT !.studies = first.studies \o @]

deserializeStudies(json) ==
    IF json.text = "unparsable"
    THEN Rejected("SyntaxError")
    ELSE IF \/ json.data = "null"
            \/ ~VersionIsOne(json.version)
            \/ json.studies # "array"
    THEN Rejected("Invalid file format")
    ELSE MapStudies(json.items)

(* useStudiesStorage: replace(newStudies) is setStudies(newStudies) *)
replace(newStudies) == newStudies

NoPending == [open |-> FALSE, studies |-> <<>>]

INVALID_BACKUP == "Invalid backup file"

(* A study kept in storage before any import *)
StoredStudy ==
    [step |-> "three", review |-> "date", incorrect |-> "three",
     entry |-> "object"]

ImportInputs ==
    /\ iStudies \in {<<>>, <<StoredStudy>>}
    /\ iPending = NoPending
    /\ iReading = {}
    /\ iLast = None

(* handleFileChange up to its await: the chosen file starts being read *)
HandleFileChange ==
    \E file \in BackupFiles \ iReading :
        /\ Cardinality(iReading) < MaxReads
        /\ iReading' = iReading \cup {file}
        /\ iLast' = [done |-> TRUE, op |-> "select"]
        /\ UNCHANGED <<iStudies, iPending>>
        /\ UNCHANGED exceptImport

(* handleFileChange when the change event carries no file *)
HandleFileChangeWithoutFile ==
    /\ iLast' = [done |-> TRUE, op |-> "nofile"]
    /\ UNCHANGED <<iStudies, iPending, iReading>>
    /\ UNCHANGED exceptImport

(* reader.onload, and handleFileChange after its await *)
ReaderLoads ==
    \E file \in iReading :
        LET imported == deserializeStudies(file)
        IN  /\ iReading' = iReading \ {file}
            /\ iPending' = IF imported.ok
                           THEN [open |-> TRUE, studies |-> imported.studies]
                           ELSE iPending
            /\ iLast' = [done |-> TRUE, op |-> "load", file |-> file,
                         replaced |-> FALSE,
                         toast |-> IF imported.ok THEN ""
                                   ELSE INVALID_BACKUP]
            /\ UNCHANGED iStudies
            /\ UNCHANGED exceptImport

(* reader.onerror, and the catch of handleFileChange *)
ReaderFails ==
    \E file \in iReading :
        /\ iReading' = iReading \ {file}
        /\ iLast' = [done |-> TRUE, op |-> "readerror", replaced |-> FALSE,
                     toast |-> INVALID_BACKUP]
        /\ UNCHANGED <<iStudies, iPending>>
        /\ UNCHANGED exceptImport

(* confirmImport, the Import button of the open dialog *)
ConfirmImport ==
    /\ iPending.open
    /\ iStudies' = replace(iPending.studies)
    /\ iPending' = NoPending
    /\ iLast' = [done |-> TRUE, op |-> "confirm", replaced |-> TRUE]
    /\ UNCHANGED iReading
    /\ UNCHANGED exceptImport

(* The Cancel button, or the dialog closing: setPendingImport(null) *)
CancelImport ==
    /\ iPending.open
    /\ iPending' = NoPending
    /\ iLast' = [done |-> TRUE, op |-> "cancel", replaced |-> FALSE]
    /\ UNCHANGED <<iStudies, iReading>>
    /\ UNCHANGED exceptImport

(* The backups that the contract names as rejected *)
IsInvalidBackup(file) ==
    \/ file.text = "unparsable"
    \/ file.data # "object" \/ file.version # "one"
    \/ file.studies # "array"
    \/ \E k \in 1..Len(file.items) :
           LET s == file.items[k]
           IN  \/ s.isNull
               \/ s.step \notin {"zero", "three"}
               \/ s.incorrect \notin {"zero", "three"}
               \/ s.entry \in {"absent", "empty"}
               \/ s.review \in {"absent", "empty"}

(* The studies of a well-formed backup, as they are stored *)
StudiesOfBackup(file) ==
    [k \in 1..Len(file.items) |->
        [step |-> file.items[k].step, review |-> "date",
         incorrect |-> file.items[k].incorrect,
         entry |-> file.items[k].entry]]

(* C19: handling a backup that deserializeStudies rejects (unparsable,     *)
(* version other than 1, studies not an array, a study without a numeric   *)
(* step, a numeric incorrect, an entry or a review) calls no replace,      *)
(* leaves the stored studies and the pending import as they were; a valid  *)
(* backup only becomes the pending import; the stored studies change only  *)
(* by a confirm, to the pending studies of a valid backup; a cancel leaves *)
(* them unchanged.                                                         *)
C19_RejectedImportLeavesStudies ==
    [][ /\ iLast'.op = "load" =>
              LET file == iLast'.file
              IN  /\ ~iLast'.replaced
                  /\ iStudies' = iStudies
                  /\ IsInvalidBackup(file) =>
                         /\ ~deserializeStudies(file).ok
                         /\ iPending' = iPending
                         /\ iLast'.toast = INVALID_BACKUP
                  /\ ~IsInvalidBackup(file) =>
                         iPending' = [open |-> TRUE,
                                      studies |-> StudiesOfBackup(file)]
        /\ iStudies' # iStudies => iLast'.op = "confirm"
        /\ iLast'.op = "confirm" =>
              /\ iPending.open
              /\ iStudies' = iPending.studies
              /\ \E file \in BackupFiles :
                     /\ ~IsInvalidBackup(file)
                     /\ iStudies' = StudiesOfBackup(file)
        /\ iLast'.op \in {"cancel", "select", "nofile", "readerror"} =>
              iStudies' = iStudies
        /\ iLast'.op \in {"select", "nofile", "readerror"} =>
              iPending' = iPending
      ]_vars

(* A backup whose second study has an empty entry has just been rejected
   while an earlier valid import still waits for its confirmation *)
C19_Witness ==
    /\ iLast.done /\ iLast.op = "load"
    /\ iLast.file = JsonFile("object", "one", "array",
                       <<GoodItem("zero"),
                         [GoodItem("zero") EXCEPT !.entry = "empty"]>>)
    /\ iStudies = <<StoredStudy>>
    /\ iPending = [open |-> TRUE,
                   studies |-> StudiesOfBackup(
                       JsonFile("object", "one", "array",
                                <<GoodItem("three")>>))]

SpecImportInit == ImportInputs /\ IdleExceptImport

SpecImportNext ==
    \/ HandleFileChange
    \/ HandleFileChangeWithoutFile
    \/ ReaderLoads
    \/ ReaderFails
    \/ ConfirmImport
    \/ CancelImport

SpecImport == SpecImportInit /\ [][SpecImportNext]_vars

----------------------------------------------------------------------------
(* The browser speech-recognition hook: start, stop, reset and the three
   handlers that start() installs on every recognition instance.  An
   instance delivers events until its end event; abort() makes it deliver
   an error event with code "aborted" and then its end event.             *)

errorMessages ==
    [code \in {"not-allowed", "no-speech", "audio-capture", "network", "aborted"} |->
        CASE code = "not-allowed" ->
                 "Microphone access denied. Please allow microphone access."
          [] code = "no-speech" -> "No speech detected. Please try again."
          [] code = "audio-capture" ->
                 "No microphone found. Please check your device."
          [] code = "network" ->
                 "Network error. Speech recognition requires an internet connection."
          [] code = "aborted" -> "Speech recognition was aborted."]

(* recognitionRef.current.abort(), when the ref holds an instance *)
abortCurrent ==
    IF sRecognitionRef = 0 THEN sInstances
    ELSE [sInstances EXCEPT ![sRecognitionRef].aborted = TRUE]

SpeechStart ==
    /\ sCalls < MaxCalls
    /\ sCalls' = sCalls + 1
    /\ sLast' = [done |-> TRUE, op |-> "start", instance |-> 0]
    /\ IF ~sSupported
       THEN UNCHANGED <<sState, sTranscript, sErrorMessage, sRecognitionRef,
                        sInstances>>
       ELSE /\ sTranscript' = ""
            /\ sErrorMessage' = ""
            /\ sState' = "listening"
            /\ sInstances' = Append(abortCurrent,
                                    [aborted |-> FALSE, ended |-> FALSE,
                                     fired |-> {}])
            /\ sRecognitionRef' = Len(sInstances) + 1
    /\ UNCHANGED sSupported
    /\ UNCHANGED exceptSpeech

SpeechStop ==
    /\ sCalls < MaxCalls
    /\ sCalls' = sCalls + 1
    /\ sLast' = [done |-> TRUE, op |-> "stop", instance |-> 0]
    /\ sState' = IF sRecognitionRef # 0 THEN "processing" ELSE sState
    /\ UNCHANGED <<sSupported, sTranscript, sErrorMessage, sRecognitionRef,
                   sInstances>>
    /\ UNCHANGED exceptSpeech

SpeechReset ==
    /\ sCalls < MaxCalls
    /\ sCalls' = sCalls + 1
    /\ sLast' = [done |-> TRUE, op |-> "reset", instance |-> 0]
    /\ sInstances' = abortCurrent
    /\ sRecognitionRef' = 0
    /\ sTranscript' = ""
    /\ sErrorMessage' = ""
    /\ sState' = IF sSupported THEN "idle" ELSE "unsupported"
    /\ UNCHANGED sSupported
    /\ UNCHANGED exceptSpeech

(* recognition.onresult of instance k, which has not been aborted *)
OnResult ==
    \E k \in DOMAIN sInstances :
        /\ ~sInstances[k].ended /\ ~sInstances[k].aborted
        /\ "result" \notin sInstances[k].fired
        /\ sInstances' = [sInstances EXCEPT ![k].fired = @ \cup {"result"}]
        /\ sLast' = [done |-> TRUE, op |-> "onresult", instance |-> k]
        /\ sTranscript' = "heard"
        /\ sState' = "done"
        /\ UNCHANGED <<sSupported, sErrorMessage, sRecognitionRef, sCalls>>
        /\ UNCHANGED exceptSpeech

(* recognition.onerror of instance k: code aborted after abort() *)
OnError ==
    \E k \in DOMAIN sInstances :
        /\ ~sInstances[k].ended
        /\ "error" \notin sInstances[k].fired
        /\ \E code \in IF sInstances[k].aborted THEN {"aborted"}
                       ELSE {"not-allowed", "no-speech", "network"} :
            /\ sInstances' = [sInstances EXCEPT ![k].fired = @ \cup {"error"}]
            /\ sLast' = [done |-> TRUE, op |-> "onerror", instance |-> k]
            /\ sErrorMessage' = errorMessages[code]
            /\ sState' = "error"
        /\ UNCHANGED <<sSupported, sTranscript, sRecognitionRef, sCalls>>
        /\ UNCHANGED exceptSpeech

(* recognition.onend of instance k, its last event *)
OnEnd ==
    \E k \in DOMAIN sInstances :
        /\ ~sInstances[k].ended
        /\ sInstances' = [sInstances EXCEPT ![k].ended = TRUE]
        /\ sLast' = [done |-> TRUE, op |-> "onend", instance |-> k]
        /\ IF sState \in {"listening", "processing"}
           THEN sErrorMessage' = "No speech detected. Please try again."
                /\ sState' = "error"
           ELSE UNCHANGED <<sErrorMessage, sState>>
        /\ UNCHANGED <<sSupported, sTranscript, sRecognitionRef, sCalls>>
        /\ UNCHANGED exceptSpeech

(* C30: an event (onresult, onerror, onend) delivered by a recognition     *)
(* instance that a later start() has aborted and replaced, or that reset() *)
(* has aborted, never changes state, transcript or errorMessage.           *)
C30_AbortedInstanceIsIgnored ==
    [][ (/\ sLast'.op \in {"onresult", "onerror", "onend"}
         /\ sInstances[sLast'.instance].aborted) =>
            UNCHANGED <<sState, sTranscript, sErrorMessage>>
      ]_vars

(* The part of C30 about reset: an end event after reset() leaves idle *)
C30_EndAfterResetIsIgnored ==
    [][ (/\ sLast'.op = "onend"
         /\ sInstances[sLast'.instance].aborted
         /\ sRecognitionRef = 0) =>
            UNCHANGED <<sState, sTranscript, sErrorMessage>>
      ]_vars

SpecSpeechInit ==
    /\ sSupported \in BOOLEAN
    /\ sState = IF sSupported THEN "idle" ELSE "unsupported"
    /\ sTranscript = "" /\ sErrorMessage = ""
    /\ sRecognitionRef = 0 /\ sInstances = <<>>
    /\ sCalls = 0 /\ sLast = None
    /\ IdleExceptSpeech

SpecSpeechNext ==
    \/ SpeechStart
    \/ SpeechStop
    \/ SpeechReset
    \/ OnResult
    \/ OnError
    \/ OnEnd

SpecSpeech == SpecSpeechInit /\ [][SpecSpeechNext]_vars

====
